---- MODULE Spec2Model ----
(***************************************************************************)
(* Request construction and dispatch of the SS12000 client.                *)
(*                                                                         *)
(* The repository carries the client class twice: src/ss12000-client.js    *)
(* reads the caller's filters from flat camelCase fields ("flat"), and     *)
(* src/unnamed/part_003 reads them from a pre-nested parameter object      *)
(* ("nested").  The variable `variant` says which file is loaded; it never *)
(* changes.  The dispatcher (_get, _post, _delete, _patch) and the         *)
(* constructor are line-for-line the same in both files.                   *)
(*                                                                         *)
(* Environment assumptions: baseUrl, when non-empty, is an absolute URL    *)
(* that `new URL` accepts; ids, keys and filter values are made of         *)
(* characters that the URL serializer leaves unescaped.                    *)
(***************************************************************************)
EXTENDS Integers, Sequences, FiniteSets, TLC

VARIABLES variant, session, calls

vars == <<variant, session, calls>>

(***************************************************************************)
(* Bounds                                                                  *)
(***************************************************************************)
\* longest array a caller passes as a filter value or as `expand`
MaxArr == 2

\* the largest number of calls in flight at once (ConcSpec)
MaxCalls == 2

(***************************************************************************)
(* JavaScript values                                                       *)
(***************************************************************************)
Undefined == [t |-> "undefined"]
Null == [t |-> "null"]
Str(s) == [t |-> "string", s |-> s]
Num(n) == [t |-> "number", n |-> n]
Bool(b) == [t |-> "boolean", b |-> b]
\* a: sequence of values
Arr(a) == [t |-> "array", a |-> a]
\* e: sequence of <<key, value>> entries in insertion order, keys distinct
Obj(e) == [t |-> "object", e |-> e]

EmptyObj == Obj(<<>>)

IsNullish(v) == v.t \in {"undefined", "null"}

HasKey(o, k) == o.t = "object" /\ \E i \in 1..Len(o.e) : o.e[i][1] = k

\* o.k for a value o that is neither undefined nor null
Get(o, k) ==
    IF HasKey(o, k)
    THEN o.e[CHOOSE i \in 1..Len(o.e) : o.e[i][1] = k][2]
    ELSE Undefined

\* o[k] = v on an object: an existing key keeps its position
Put(o, k, v) ==
    IF HasKey(o, k)
    THEN Obj([i \in 1..Len(o.e) |-> IF o.e[i][1] = k THEN <<k, v>> ELSE o.e[i]])
    ELSE Obj(Append(o.e, <<k, v>>))

\* params.a.b.c: reading a property of undefined or null throws a TypeError
RECURSIVE ReadPath(_, _)
ReadPath(v, path) ==
    IF path = <<>> THEN [threw |-> FALSE, v |-> v]
    ELSE IF IsNullish(v) THEN [threw |-> TRUE, v |-> Undefined]
    ELSE ReadPath(Get(v, Head(path)), Tail(path))

\* an object literal { k1: v1, k2: v2, ... }
RECURSIVE ObjectLiteral(_, _)
ObjectLiteral(entries, acc) ==
    IF entries = <<>> THEN acc
    ELSE ObjectLiteral(Tail(entries), Put(acc, Head(entries)[1], Head(entries)[2]))

\* String(v), the conversion URLSearchParams.append and template literals apply
RECURSIVE ToStr(_)
RECURSIVE JoinComma(_)
JoinComma(a) ==
    IF a = <<>> THEN ""
    ELSE (IF IsNullish(Head(a)) THEN "" ELSE ToStr(Head(a)))
         \o (IF Len(a) > 1 THEN "," \o JoinComma(Tail(a)) ELSE "")
ToStr(v) ==
    CASE v.t = "string" -> v.s
      [] v.t = "number" -> ToString(v.n)
      [] v.t = "boolean" -> (IF v.b THEN "true" ELSE "false")
      [] v.t = "undefined" -> "undefined"
      [] v.t = "null" -> "null"
      [] v.t = "array" -> JoinComma(v.a)
      [] v.t = "object" -> "[object Object]"

\* JSON.stringify(v): a string value, or undefined when v is undefined
RECURSIVE JsonText(_)
RECURSIVE JsonItems(_)
RECURSIVE JsonMembers(_, _)
JsonItems(a) ==
    IF a = <<>> THEN ""
    ELSE (IF Head(a).t = "undefined" THEN "null" ELSE JsonText(Head(a)))
         \o (IF Len(a) > 1 THEN "," \o JsonItems(Tail(a)) ELSE "")
JsonMembers(e, first) ==
    IF e = <<>> THEN ""
    ELSE IF Head(e)[2].t = "undefined" THEN JsonMembers(Tail(e), first)
    ELSE (IF first THEN "" ELSE ",") \o "\"" \o Head(e)[1] \o "\":" \o JsonText(Head(e)[2])
         \o JsonMembers(Tail(e), FALSE)
JsonText(v) ==
    CASE v.t = "string" -> "\"" \o v.s \o "\""
      [] v.t = "number" -> ToString(v.n)
      [] v.t = "boolean" -> (IF v.b THEN "true" ELSE "false")
      [] v.t = "null" -> "null"
      [] v.t = "array" -> "[" \o JsonItems(v.a) \o "]"
      [] v.t = "object" -> "{" \o JsonMembers(v.e, TRUE) \o "}"

JSONstringify(v) == IF v.t = "undefined" THEN Undefined ELSE Str(JsonText(v))

\* !v
Falsy(v) ==
    \/ IsNullish(v)
    \/ v.t = "string" /\ v.s = ""
    \/ v.t = "boolean" /\ ~v.b
    \/ v.t = "number" /\ v.n = 0


(***************************************************************************)
(* The resource methods, one definition per method with its record in each *)
(* of the two files (.flat: src/ss12000-client.js, .nested:                *)
(* src/unnamed/part_003): the verb, the path, and for a list method the    *)
(* mappedParams literal as <<wire key, caller path>> entries in source     *)
(* order.                                                                  *)
(***************************************************************************)
\* src/ss12000-client.js lines 200-222; src/unnamed/part_003 lines 200-222
getOrganisations ==
    [flat |->
        [name |-> "getOrganisations", kind |-> "list", method |-> "GET",
         path |-> "/organisations", withId |-> FALSE,
         flags |-> <<>>, arrCheck |-> FALSE, validate |-> FALSE,
         map |-> <<
            <<"parent", <<"parent">>>>,
            <<"schoolUnitCode", <<"schoolUnitCode">>>>,
            <<"organisationCode", <<"organisationCode">>>>,
            <<"municipalityCode", <<"municipalityCode">>>>,
            <<"type", <<"type">>>>,
            <<"schoolTypes", <<"schoolTypes">>>>,
            <<"startDate.onOrBefore", <<"startDateOnOrBefore">>>>,
            <<"startDate.onOrAfter", <<"startDateOnOrAfter">>>>,
            <<"endDate.onOrBefore", <<"endDateOnOrBefore">>>>,
            <<"endDate.onOrAfter", <<"endDateOnOrAfter">>>>,
            <<"meta.created.before", <<"metaCreatedBefore">>>>,
            <<"meta.created.after", <<"metaCreatedAfter">>>>,
            <<"meta.modified.before", <<"metaModifiedBefore">>>>,
            <<"meta.modified.after", <<"metaModifiedAfter">>>>,
            <<"expandReferenceNames", <<"expandReferenceNames">>>>,
            <<"sortkey", <<"sortkey">>>>,
            <<"limit", <<"limit">>>>,
            <<"pageToken", <<"pageToken">>>> >>],
     nested |->
        [name |-> "getOrganisations", kind |-> "list", method |-> "GET",
         path |-> "/organisations", withId |-> FALSE,
         flags |-> <<>>, arrCheck |-> FALSE, validate |-> FALSE,
         map |-> <<
            <<"parent", <<"parent">>>>,
            <<"schoolUnitCode", <<"schoolUnitCode">>>>,
            <<"organisationCode", <<"organisationCode">>>>,
            <<"municipalityCode", <<"municipalityCode">>>>,
            <<"type", <<"type">>>>,
            <<"schoolTypes", <<"schoolTypes">>>>,
            <<"startDate.onOrBefore", <<"startDate", "onOrBefore">>>>,
            <<"startDate.onOrAfter", <<"startDate", "onOrAfter">>>>,
            <<"endDate.onOrBefore", <<"endDate", "onOrBefore">>>>,
            <<"endDate.onOrAfter", <<"endDate", "onOrAfter">>>>,
            <<"meta.created.before", <<"meta", "created", "before">>>>,
            <<"meta.created.after", <<"meta", "created", "after">>>>,
            <<"meta.modified.before", <<"meta", "modified", "before">>>>,
            <<"meta.modified.after", <<"meta", "modified", "after">>>>,
            <<"expandReferenceNames", <<"expandReferenceNames">>>>,
            <<"sortkey", <<"sortkey">>>>,
            <<"limit", <<"limit">>>>,
            <<"pageToken", <<"pageToken">>>> >>]]

\* src/ss12000-client.js lines 233-258; src/unnamed/part_003 lines 233-258
lookupOrganisations ==
    [flat |->
        [name |-> "lookupOrganisations", kind |-> "lookup", method |-> "POST",
         path |-> "/organisations/lookup", withId |-> FALSE,
         flags |-> <<"expandReferenceNames">>, arrCheck |-> FALSE, validate |-> FALSE,
         map |-> <<>>],
     nested |->
        [name |-> "lookupOrganisations", kind |-> "lookup", method |-> "POST",
         path |-> "/organisations/lookup", withId |-> FALSE,
         flags |-> <<"expandReferenceNames">>, arrCheck |-> FALSE, validate |-> FALSE,
         map |-> <<>>]]

\* src/ss12000-client.js lines 266-269; src/unnamed/part_003 lines 266-269
getOrganisationById ==
    [flat |->
        [name |-> "getOrganisationById", kind |-> "byId", method |-> "GET",
         path |-> "/organisations", withId |-> TRUE,
         flags |-> <<"expandReferenceNames">>, arrCheck |-> FALSE, validate |-> FALSE,
         map |-> <<>>],
     nested |->
        [name |-> "getOrganisationById", kind |-> "byId", method |-> "GET",
         path |-> "/organisations", withId |-> TRUE,
         flags |-> <<"expandReferenceNames">>, arrCheck |-> FALSE, validate |-> FALSE,
         map |-> <<>>]]

\* src/ss12000-client.js lines 298-322; src/unnamed/part_003 lines 298-322
getPersons ==
    [flat |->
        [name |-> "getPersons", kind |-> "list", method |-> "GET",
         path |-> "/persons", withId |-> FALSE,
         flags |-> <<>>, arrCheck |-> FALSE, validate |-> FALSE,
         map |-> <<
            <<"nameContains", <<"nameContains">>>>,
            <<"civicNo", <<"civicNo">>>>,
            <<"eduPersonPrincipalName", <<"eduPersonPrincipalName">>>>,
            <<"identifier.value", <<"identifierValue">>>>,
            <<"identifier.context", <<"identifierContext">>>>,
            <<"relationship.entity.type", <<"relationshipEntityType">>>>,
            <<"relationship.organisation", <<"relationshipOrganisation">>>>,
            <<"relationship.startDate.onOrBefore", <<"relationshipStartDateOnOrBefore">>>>,
            <<"relationship.startDate.onOrAfter", <<"relationshipStartDateOnOrAfter">>>>,
            <<"relationship.endDate.onOrBefore", <<"relationshipEndDateOnOrBefore">>>>,
            <<"relationship.endDate.onOrAfter", <<"relationshipEndDateOnOrAfter">>>>,
            <<"meta.created.before", <<"metaCreatedBefore">>>>,
            <<"meta.created.after", <<"metaCreatedAfter">>>>,
            <<"meta.modified.before", <<"metaModifiedBefore">>>>,
            <<"meta.modified.after", <<"metaModifiedAfter">>>>,
            <<"expand", <<"expand">>>>,
            <<"expandReferenceNames", <<"expandReferenceNames">>>>,
            <<"sortkey", <<"sortkey">>>>,
            <<"limit", <<"limit">>>>,
            <<"pageToken", <<"pageToken">>>> >>],
     nested |->
        [name |-> "getPersons", kind |-> "list", method |-> "GET",
         path |-> "/persons", withId |-> FALSE,
         flags |-> <<>>, arrCheck |-> FALSE, validate |-> FALSE,
         map |-> <<
            <<"nameContains", <<"nameContains">>>>,
            <<"civicNo", <<"civicNo">>>>,
            <<"eduPersonPrincipalName", <<"eduPersonPrincipalName">>>>,
            <<"identifier.value", <<"identifier", "value">>>>,
            <<"identifier.context", <<"identifier", "context">>>>,
            <<"relationship.entity.type", <<"relationship", "entity", "type">>>>,
            <<"relationship.organisation", <<"relationship", "organisation">>>>,
            <<"relationship.startDate.onOrBefore", <<"relationship", "startDate", "onOrBefore">>>>,
            <<"relationship.startDate.onOrAfter", <<"relationship", "startDate", "onOrAfter">>>>,
            <<"relationship.endDate.onOrBefore", <<"relationship", "endDate", "onOrBefore">>>>,
            <<"relationship.endDate.onOrAfter", <<"relationship", "endDate", "onOrAfter">>>>,
            <<"meta.created.before", <<"meta", "created", "before">>>>,
            <<"meta.created.after", <<"meta", "created", "after">>>>,
            <<"meta.modified.before", <<"meta", "modified", "before">>>>,
            <<"meta.modified.after", <<"meta", "modified", "after">>>>,
            <<"expand", <<"expand">>>>,
            <<"expandReferenceNames", <<"expandReferenceNames">>>>,
            <<"sortkey", <<"sortkey">>>>,
            <<"limit", <<"limit">>>>,
            <<"pageToken", <<"pageToken">>>> >>]]

\* src/ss12000-client.js lines 333-362; src/unnamed/part_003 lines 333-362
lookupPersons ==
    [flat |->
        [name |-> "lookupPersons", kind |-> "lookup", method |-> "POST",
         path |-> "/persons/lookup", withId |-> FALSE,
         flags |-> <<"expand", "expandReferenceNames">>, arrCheck |-> TRUE, validate |-> FALSE,
         map |-> <<>>],
     nested |->
        [name |-> "lookupPersons", kind |-> "lookup", method |-> "POST",
         path |-> "/persons/lookup", withId |-> FALSE,
         flags |-> <<"expand", "expandReferenceNames">>, arrCheck |-> TRUE, validate |-> FALSE,
         map |-> <<>>]]

\* src/ss12000-client.js lines 371-374; src/unnamed/part_003 lines 371-374
getPersonById ==
    [flat |->
        [name |-> "getPersonById", kind |-> "byId", method |-> "GET",
         path |-> "/persons", withId |-> TRUE,
         flags |-> <<"expand", "expandReferenceNames">>, arrCheck |-> FALSE, validate |-> FALSE,
         map |-> <<>>],
     nested |->
        [name |-> "getPersonById", kind |-> "byId", method |-> "GET",
         path |-> "/persons", withId |-> TRUE,
         flags |-> <<"expand", "expandReferenceNames">>, arrCheck |-> FALSE, validate |-> FALSE,
         map |-> <<>>]]

\* src/ss12000-client.js lines 400-422; src/unnamed/part_003 lines 400-421
getPlacements ==
    [flat |->
        [name |-> "getPlacements", kind |-> "list", method |-> "GET",
         path |-> "/placements", withId |-> FALSE,
         flags |-> <<>>, arrCheck |-> FALSE, validate |-> FALSE,
         map |-> <<
            <<"child", <<"child">>>>,
            <<"group", <<"group">>>>,
            <<"owner", <<"owner">>>>,
            <<"placedAt", <<"placedAt">>>>,
            <<"schoolType", <<"schoolType">>>>,
            <<"startDate.onOrBefore", <<"startDateOnOrBefore">>>>,
            <<"startDate.onOrAfter", <<"startDateOnOrAfter">>>>,
            <<"endDate.onOrBefore", <<"endDateOnOrBefore">>>>,
            <<"endDate.onOrAfter", <<"endDateOnOrAfter">>>>,
            <<"meta.created.before", <<"metaCreatedBefore">>>>,
            <<"meta.created.after", <<"metaCreatedAfter">>>>,
            <<"meta.modified.before", <<"metaModifiedBefore">>>>,
            <<"meta.modified.after", <<"metaModifiedAfter">>>>,
            <<"expand", <<"expand">>>>,
            <<"expandReferenceNames", <<"expandReferenceNames">>>>,
            <<"sortkey", <<"sortkey">>>>,
            <<"limit", <<"limit">>>>,
            <<"pageToken", <<"pageToken">>>> >>],
     nested |->
        [name |-> "getPlacements", kind |-> "list", method |-> "GET",
         path |-> "/placements", withId |-> FALSE,
         flags |-> <<>>, arrCheck |-> FALSE, validate |-> FALSE,
         map |-> <<
            <<"organisation", <<"organisation">>>>,
            <<"group", <<"group">>>>,
            <<"startDate.onOrBefore", <<"startDate", "onOrBefore">>>>,
            <<"startDate.onOrAfter", <<"startDate", "onOrAfter">>>>,
            <<"endDate.onOrBefore", <<"endDate", "onOrBefore">>>>,
            <<"endDate.onOrAfter", <<"endDate", "onOrAfter">>>>,
            <<"child", <<"child">>>>,
            <<"owner", <<"owner">>>>,
            <<"meta.created.before", <<"meta", "created", "before">>>>,
            <<"meta.created.after", <<"meta", "created", "after">>>>,
            <<"meta.modified.before", <<"meta", "modified", "before">>>>,
            <<"meta.modified.after", <<"meta", "modified", "after">>>>,
            <<"expand", <<"expand">>>>,
            <<"expandReferenceNames", <<"expandReferenceNames">>>>,
            <<"sortkey", <<"sortkey">>>>,
            <<"limit", <<"limit">>>>,
            <<"pageToken", <<"pageToken">>>> >>]]

\* src/ss12000-client.js lines 432-461; src/unnamed/part_003 lines 431-460
lookupPlacements ==
    [flat |->
        [name |-> "lookupPlacements", kind |-> "lookup", method |-> "POST",
         path |-> "/placements/lookup", withId |-> FALSE,
         flags |-> <<"expand", "expandReferenceNames">>, arrCheck |-> TRUE, validate |-> FALSE,
         map |-> <<>>],
     nested |->
        [name |-> "lookupPlacements", kind |-> "lookup", method |-> "POST",
         path |-> "/placements/lookup", withId |-> FALSE,
         flags |-> <<"expand", "expandReferenceNames">>, arrCheck |-> TRUE, validate |-> FALSE,
         map |-> <<>>]]

\* src/ss12000-client.js lines 470-473; src/unnamed/part_003 lines 469-472
getPlacementById ==
    [flat |->
        [name |-> "getPlacementById", kind |-> "byId", method |-> "GET",
         path |-> "/placements", withId |-> TRUE,
         flags |-> <<"expand", "expandReferenceNames">>, arrCheck |-> FALSE, validate |-> FALSE,
         map |-> <<>>],
     nested |->
        [name |-> "getPlacementById", kind |-> "byId", method |-> "GET",
         path |-> "/placements", withId |-> TRUE,
         flags |-> <<"expand", "expandReferenceNames">>, arrCheck |-> FALSE, validate |-> FALSE,
         map |-> <<>>]]

\* src/ss12000-client.js lines 499-520; src/unnamed/part_003 lines 497-517
getDuties ==
    [flat |->
        [name |-> "getDuties", kind |-> "list", method |-> "GET",
         path |-> "/duties", withId |-> FALSE,
         flags |-> <<>>, arrCheck |-> FALSE, validate |-> FALSE,
         map |-> <<
            <<"person", <<"person">>>>,
            <<"dutyAt", <<"dutyAt">>>>,
            <<"dutyRole", <<"dutyRole">>>>,
            <<"signature", <<"signature">>>>,
            <<"startDate.onOrBefore", <<"startDateOnOrBefore">>>>,
            <<"startDate.onOrAfter", <<"startDateOnOrAfter">>>>,
            <<"endDate.onOrBefore", <<"endDateOnOrBefore">>>>,
            <<"endDate.onOrAfter", <<"endDateOnOrAfter">>>>,
            <<"meta.created.before", <<"metaCreatedBefore">>>>,
            <<"meta.created.after", <<"metaCreatedAfter">>>>,
            <<"meta.modified.before", <<"metaModifiedBefore">>>>,
            <<"meta.modified.after", <<"metaModifiedAfter">>>>,
            <<"expand", <<"expand">>>>,
            <<"expandReferenceNames", <<"expandReferenceNames">>>>,
            <<"sortkey", <<"sortkey">>>>,
            <<"limit", <<"limit">>>>,
            <<"pageToken", <<"pageToken">>>> >>],
     nested |->
        [name |-> "getDuties", kind |-> "list", method |-> "GET",
         path |-> "/duties", withId |-> FALSE,
         flags |-> <<>>, arrCheck |-> FALSE, validate |-> FALSE,
         map |-> <<
            <<"person", <<"person">>>>,
            <<"organisation", <<"organisation">>>>,
            <<"dutyRole", <<"dutyRole">>>>,
            <<"startDate.onOrBefore", <<"startDate", "onOrBefore">>>>,
            <<"startDate.onOrAfter", <<"startDate", "onOrAfter">>>>,
            <<"endDate.onOrBefore", <<"endDate", "onOrBefore">>>>,
            <<"endDate.onOrAfter", <<"endDate", "onOrAfter">>>>,
            <<"meta.created.before", <<"meta", "created", "before">>>>,
            <<"meta.created.after", <<"meta", "created", "after">>>>,
            <<"meta.modified.before", <<"meta", "modified", "before">>>>,
            <<"meta.modified.after", <<"meta", "modified", "after">>>>,
            <<"expand", <<"expand">>>>,
            <<"expandReferenceNames", <<"expandReferenceNames">>>>,
            <<"sortkey", <<"sortkey">>>>,
            <<"limit", <<"limit">>>>,
            <<"pageToken", <<"pageToken">>>> >>]]

\* src/ss12000-client.js lines 530-559; src/unnamed/part_003 lines 527-556
lookupDuties ==
    [flat |->
        [name |-> "lookupDuties", kind |-> "lookup", method |-> "POST",
         path |-> "/duties/lookup", withId |-> FALSE,
         flags |-> <<"expand", "expandReferenceNames">>, arrCheck |-> TRUE, validate |-> FALSE,
         map |-> <<>>],
     nested |->
        [name |-> "lookupDuties", kind |-> "lookup", method |-> "POST",
         path |-> "/duties/lookup", withId |-> FALSE,
         flags |-> <<"expand", "expandReferenceNames">>, arrCheck |-> TRUE, validate |-> FALSE,
         map |-> <<>>]]

\* src/ss12000-client.js lines 568-571; src/unnamed/part_003 lines 565-568
getDutyById ==
    [flat |->
        [name |-> "getDutyById", kind |-> "byId", method |-> "GET",
         path |-> "/duties", withId |-> TRUE,
         flags |-> <<"expand", "expandReferenceNames">>, arrCheck |-> FALSE, validate |-> FALSE,
         map |-> <<>>],
     nested |->
        [name |-> "getDutyById", kind |-> "byId", method |-> "GET",
         path |-> "/duties", withId |-> TRUE,
         flags |-> <<"expand", "expandReferenceNames">>, arrCheck |-> FALSE, validate |-> FALSE,
         map |-> <<>>]]

\* src/ss12000-client.js lines 596-616; src/unnamed/part_003 lines 593-613
getGroups ==
    [flat |->
        [name |-> "getGroups", kind |-> "list", method |-> "GET",
         path |-> "/groups", withId |-> FALSE,
         flags |-> <<>>, arrCheck |-> FALSE, validate |-> FALSE,
         map |-> <<
            <<"groupType", <<"groupType">>>>,
            <<"schoolType", <<"schoolType">>>>,
            <<"organisation", <<"organisation">>>>,
            <<"startDate.onOrBefore", <<"startDateOnOrBefore">>>>,
            <<"startDate.onOrAfter", <<"startDateOnOrAfter">>>>,
            <<"endDate.onOrBefore", <<"endDateOnOrBefore">>>>,
            <<"endDate.onOrAfter", <<"endDateOnOrAfter">>>>,
            <<"meta.created.before", <<"metaCreatedBefore">>>>,
            <<"meta.created.after", <<"metaCreatedAfter">>>>,
            <<"meta.modified.before", <<"metaModifiedBefore">>>>,
            <<"meta.modified.after", <<"metaModifiedAfter">>>>,
            <<"expand", <<"expand">>>>,
            <<"expandReferenceNames", <<"expandReferenceNames">>>>,
            <<"sortkey", <<"sortkey">>>>,
            <<"limit", <<"limit">>>>,
            <<"pageToken", <<"pageToken">>>> >>],
     nested |->
        [name |-> "getGroups", kind |-> "list", method |-> "GET",
         path |-> "/groups", withId |-> FALSE,
         flags |-> <<>>, arrCheck |-> FALSE, validate |-> FALSE,
         map |-> <<
            <<"groupType", <<"groupType">>>>,
            <<"schoolTypes", <<"schoolTypes">>>>,
            <<"organisation", <<"organisation">>>>,
            <<"startDate.onOrBefore", <<"startDate", "onOrBefore">>>>,
            <<"startDate.onOrAfter", <<"startDate", "onOrAfter">>>>,
            <<"endDate.onOrBefore", <<"endDate", "onOrBefore">>>>,
            <<"endDate.onOrAfter", <<"endDate", "onOrAfter">>>>,
            <<"meta.created.before", <<"meta", "created", "before">>>>,
            <<"meta.created.after", <<"meta", "created", "after">>>>,
            <<"meta.modified.before", <<"meta", "modified", "before">>>>,
            <<"meta.modified.after", <<"meta", "modified", "after">>>>,
            <<"expand", <<"expand">>>>,
            <<"expandReferenceNames", <<"expandReferenceNames">>>>,
            <<"sortkey", <<"sortkey">>>>,
            <<"limit", <<"limit">>>>,
            <<"pageToken", <<"pageToken">>>> >>]]

\* src/ss12000-client.js lines 626-655; src/unnamed/part_003 lines 623-652
lookupGroups ==
    [flat |->
        [name |-> "lookupGroups", kind |-> "lookup", method |-> "POST",
         path |-> "/groups/lookup", withId |-> FALSE,
         flags |-> <<"expand", "expandReferenceNames">>, arrCheck |-> TRUE, validate |-> FALSE,
         map |-> <<>>],
     nested |->
        [name |-> "lookupGroups", kind |-> "lookup", method |-> "POST",
         path |-> "/groups/lookup", withId |-> FALSE,
         flags |-> <<"expand", "expandReferenceNames">>, arrCheck |-> TRUE, validate |-> FALSE,
         map |-> <<>>]]

\* src/ss12000-client.js lines 664-667; src/unnamed/part_003 lines 661-664
getGroupById ==
    [flat |->
        [name |-> "getGroupById", kind |-> "byId", method |-> "GET",
         path |-> "/groups", withId |-> TRUE,
         flags |-> <<"expand", "expandReferenceNames">>, arrCheck |-> FALSE, validate |-> FALSE,
         map |-> <<>>],
     nested |->
        [name |-> "getGroupById", kind |-> "byId", method |-> "GET",
         path |-> "/groups", withId |-> TRUE,
         flags |-> <<"expand", "expandReferenceNames">>, arrCheck |-> FALSE, validate |-> FALSE,
         map |-> <<>>]]

\* src/ss12000-client.js lines 690-708; src/unnamed/part_003 lines 684-699
getProgrammes ==
    [flat |->
        [name |-> "getProgrammes", kind |-> "list", method |-> "GET",
         path |-> "/programmes", withId |-> FALSE,
         flags |-> <<>>, arrCheck |-> FALSE, validate |-> FALSE,
         map |-> <<
            <<"nameContains", <<"nameContains">>>>,
            <<"type", <<"type">>>>,
            <<"parentProgramme", <<"parentProgramme">>>>,
            <<"schoolType", <<"schoolType">>>>,
            <<"code", <<"code">>>>,
            <<"meta.created.before", <<"metaCreatedBefore">>>>,
            <<"meta.created.after", <<"metaCreatedAfter">>>>,
            <<"meta.modified.before", <<"metaModifiedBefore">>>>,
            <<"meta.modified.after", <<"metaModifiedAfter">>>>,
            <<"expand", <<"expand">>>>,
            <<"expandReferenceNames", <<"expandReferenceNames">>>>,
            <<"sortkey", <<"sortkey">>>>,
            <<"limit", <<"limit">>>>,
            <<"pageToken", <<"pageToken">>>> >>],
     nested |->
        [name |-> "getProgrammes", kind |-> "list", method |-> "GET",
         path |-> "/programmes", withId |-> FALSE,
         flags |-> <<>>, arrCheck |-> FALSE, validate |-> FALSE,
         map |-> <<
            <<"parentProgramme", <<"parentProgramme">>>>,
            <<"schoolType", <<"schoolType">>>>,
            <<"code", <<"code">>>>,
            <<"meta.created.before", <<"meta", "created", "before">>>>,
            <<"meta.created.after", <<"meta", "created", "after">>>>,
            <<"meta.modified.before", <<"meta", "modified", "before">>>>,
            <<"meta.modified.after", <<"meta", "modified", "after">>>>,
            <<"expandReferenceNames", <<"expandReferenceNames">>>>,
            <<"sortkey", <<"sortkey">>>>,
            <<"limit", <<"limit">>>>,
            <<"pageToken", <<"pageToken">>>> >>]]

\* src/ss12000-client.js lines 718-747; src/unnamed/part_003 lines 708-737
lookupProgrammes ==
    [flat |->
        [name |-> "lookupProgrammes", kind |-> "lookup", method |-> "POST",
         path |-> "/programmes/lookup", withId |-> FALSE,
         flags |-> <<"expand", "expandReferenceNames">>, arrCheck |-> TRUE, validate |-> FALSE,
         map |-> <<>>],
     nested |->
        [name |-> "lookupProgrammes", kind |-> "lookup", method |-> "POST",
         path |-> "/programmes/lookup", withId |-> FALSE,
         flags |-> <<"expandReferenceNames">>, arrCheck |-> TRUE, validate |-> FALSE,
         map |-> <<>>]]

\* src/ss12000-client.js lines 756-759; src/unnamed/part_003 lines 746-749
getProgrammeById ==
    [flat |->
        [name |-> "getProgrammeById", kind |-> "byId", method |-> "GET",
         path |-> "/programmes", withId |-> TRUE,
         flags |-> <<"expand", "expandReferenceNames">>, arrCheck |-> FALSE, validate |-> FALSE,
         map |-> <<>>],
     nested |->
        [name |-> "getProgrammeById", kind |-> "byId", method |-> "GET",
         path |-> "/programmes", withId |-> TRUE,
         flags |-> <<"expand", "expandReferenceNames">>, arrCheck |-> FALSE, validate |-> FALSE,
         map |-> <<>>]]

\* src/ss12000-client.js lines 782-800; src/unnamed/part_003 lines 771-788
getStudyPlans ==
    [flat |->
        [name |-> "getStudyPlans", kind |-> "list", method |-> "GET",
         path |-> "/studyplans", withId |-> FALSE,
         flags |-> <<>>, arrCheck |-> FALSE, validate |-> FALSE,
         map |-> <<
            <<"student", <<"student">>>>,
            <<"startDate.onOrBefore", <<"startDateOnOrBefore">>>>,
            <<"startDate.onOrAfter", <<"startDateOnOrAfter">>>>,
            <<"endDate.onOrBefore", <<"endDateOnOrBefore">>>>,
            <<"endDate.onOrAfter", <<"endDateOnOrAfter">>>>,
            <<"meta.created.before", <<"metaCreatedBefore">>>>,
            <<"meta.created.after", <<"metaCreatedAfter">>>>,
            <<"meta.modified.before", <<"metaModifiedBefore">>>>,
            <<"meta.modified.after", <<"metaModifiedAfter">>>>,
            <<"expand", <<"expand">>>>,
            <<"expandReferenceNames", <<"expandReferenceNames">>>>,
            <<"sortkey", <<"sortkey">>>>,
            <<"limit", <<"limit">>>>,
            <<"pageToken", <<"pageToken">>>> >>],
     nested |->
        [name |-> "getStudyPlans", kind |-> "list", method |-> "GET",
         path |-> "/studyplans", withId |-> FALSE,
         flags |-> <<>>, arrCheck |-> FALSE, validate |-> FALSE,
         map |-> <<
            <<"student", <<"student">>>>,
            <<"startDate.onOrBefore", <<"startDate", "onOrBefore">>>>,
            <<"startDate.onOrAfter", <<"startDate", "onOrAfter">>>>,
            <<"endDate.onOrBefore", <<"endDate", "onOrBefore">>>>,
            <<"endDate.onOrAfter", <<"endDate", "onOrAfter">>>>,
            <<"meta.created.before", <<"meta", "created", "before">>>>,
            <<"meta.created.after", <<"meta", "created", "after">>>>,
            <<"meta.modified.before", <<"meta", "modified", "before">>>>,
            <<"meta.modified.after", <<"meta", "modified", "after">>>>,
            <<"expandReferenceNames", <<"expandReferenceNames">>>>,
            <<"sortkey", <<"sortkey">>>>,
            <<"limit", <<"limit">>>>,
            <<"pageToken", <<"pageToken">>>> >>]]

\* src/ss12000-client.js lines 810-839; src/unnamed/part_003 lines 800-829
lookupStudyPlans ==
    [flat |->
        [name |-> "lookupStudyPlans", kind |-> "lookup", method |-> "POST",
         path |-> "/studyplans/lookup", withId |-> FALSE,
         flags |-> <<"expand", "expandReferenceNames">>, arrCheck |-> TRUE, validate |-> FALSE,
         map |-> <<>>],
     nested |->
        [name |-> "lookupStudyPlans", kind |-> "lookup", method |-> "POST",
         path |-> "/studyplans/lookup", withId |-> FALSE,
         flags |-> <<"expand", "expandReferenceNames">>, arrCheck |-> TRUE, validate |-> FALSE,
         map |-> <<>>]]

\* src/ss12000-client.js lines 848-851; src/unnamed/part_003 lines 840-843
getStudyPlanById ==
    [flat |->
        [name |-> "getStudyPlanById", kind |-> "byId", method |-> "GET",
         path |-> "/studyplans", withId |-> TRUE,
         flags |-> <<"expand", "expandReferenceNames">>, arrCheck |-> FALSE, validate |-> FALSE,
         map |-> <<>>],
     nested |->
        [name |-> "getStudyPlanById", kind |-> "byId", method |-> "GET",
         path |-> "/studyplans", withId |-> TRUE,
         flags |-> <<"expand", "expandReferenceNames">>, arrCheck |-> FALSE, validate |-> FALSE,
         map |-> <<>>]]

\* src/ss12000-client.js lines 883-910; src/unnamed/part_003 lines 860-872
getSyllabuses ==
    [flat |->
        [name |-> "getSyllabuses", kind |-> "list", method |-> "GET",
         path |-> "/syllabuses", withId |-> FALSE,
         flags |-> <<>>, arrCheck |-> FALSE, validate |-> FALSE,
         map |-> <<
            <<"schoolType", <<"schoolType">>>>,
            <<"subjectCode", <<"subjectCode">>>>,
            <<"subjectNameContains", <<"subjectNameContains">>>>,
            <<"subjectDesignation", <<"subjectDesignation">>>>,
            <<"courseCode", <<"courseCode">>>>,
            <<"courseNameContains", <<"courseNameContains">>>>,
            <<"startSchoolYear.onOrBefore", <<"startSchoolYearOnOrBefore">>>>,
            <<"startSchoolYear.onOrAfter", <<"startSchoolYearOnOrAfter">>>>,
            <<"endSchoolYear.onOrBefore", <<"endSchoolYearOnOrBefore">>>>,
            <<"endSchoolYear.onOrAfter", <<"endSchoolYearOnOrAfter">>>>,
            <<"points.onOrBefore", <<"pointsOnOrBefore">>>>,
            <<"points.onOrAfter", <<"pointsOnOrAfter">>>>,
            <<"curriculum", <<"curriculum">>>>,
            <<"languageCode", <<"languageCode">>>>,
            <<"official", <<"official">>>>,
            <<"meta.created.before", <<"metaCreatedBefore">>>>,
            <<"meta.created.after", <<"metaCreatedAfter">>>>,
            <<"meta.modified.before", <<"metaModifiedBefore">>>>,
            <<"meta.modified.after", <<"metaModifiedAfter">>>>,
            <<"expandReferenceNames", <<"expandReferenceNames">>>>,
            <<"sortkey", <<"sortkey">>>>,
            <<"limit", <<"limit">>>>,
            <<"pageToken", <<"pageToken">>>> >>],
     nested |->
        [name |-> "getSyllabuses", kind |-> "list", method |-> "GET",
         path |-> "/syllabuses", withId |-> FALSE,
         flags |-> <<>>, arrCheck |-> FALSE, validate |-> FALSE,
         map |-> <<
            <<"meta.created.before", <<"meta", "created", "before">>>>,
            <<"meta.created.after", <<"meta", "created", "after">>>>,
            <<"meta.modified.before", <<"meta", "modified", "before">>>>,
            <<"meta.modified.after", <<"meta", "modified", "after">>>>,
            <<"expandReferenceNames", <<"expandReferenceNames">>>>,
            <<"sortkey", <<"sortkey">>>>,
            <<"limit", <<"limit">>>>,
            <<"pageToken", <<"pageToken">>>> >>]]

\* src/ss12000-client.js lines 919-944; src/unnamed/part_003 lines 881-906
lookupSyllabuses ==
    [flat |->
        [name |-> "lookupSyllabuses", kind |-> "lookup", method |-> "POST",
         path |-> "/syllabuses/lookup", withId |-> FALSE,
         flags |-> <<"expandReferenceNames">>, arrCheck |-> FALSE, validate |-> FALSE,
         map |-> <<>>],
     nested |->
        [name |-> "lookupSyllabuses", kind |-> "lookup", method |-> "POST",
         path |-> "/syllabuses/lookup", withId |-> FALSE,
         flags |-> <<"expandReferenceNames">>, arrCheck |-> FALSE, validate |-> FALSE,
         map |-> <<>>]]

\* src/ss12000-client.js lines 952-955; src/unnamed/part_003 lines 914-917
getSyllabusById ==
    [flat |->
        [name |-> "getSyllabusById", kind |-> "byId", method |-> "GET",
         path |-> "/syllabuses", withId |-> TRUE,
         flags |-> <<"expandReferenceNames">>, arrCheck |-> FALSE, validate |-> FALSE,
         map |-> <<>>],
     nested |->
        [name |-> "getSyllabusById", kind |-> "byId", method |-> "GET",
         path |-> "/syllabuses", withId |-> TRUE,
         flags |-> <<"expandReferenceNames">>, arrCheck |-> FALSE, validate |-> FALSE,
         map |-> <<>>]]

\* src/ss12000-client.js lines 980-1000; src/unnamed/part_003 lines 935-948
getSchoolUnitOfferings ==
    [flat |->
        [name |-> "getSchoolUnitOfferings", kind |-> "list", method |-> "GET",
         path |-> "/schoolUnitOfferings", withId |-> FALSE,
         flags |-> <<>>, arrCheck |-> FALSE, validate |-> FALSE,
         map |-> <<
            <<"offeredAt", <<"offeredAt">>>>,
            <<"offeredSyllabuses", <<"offeredSyllabuses">>>>,
            <<"offeredProgrammes", <<"offeredProgrammes">>>>,
            <<"startDate.onOrBefore", <<"startDateOnOrBefore">>>>,
            <<"startDate.onOrAfter", <<"startDateOnOrAfter">>>>,
            <<"endDate.onOrBefore", <<"endDateOnOrBefore">>>>,
            <<"endDate.onOrAfter", <<"endDateOnOrAfter">>>>,
            <<"meta.created.before", <<"metaCreatedBefore">>>>,
            <<"meta.created.after", <<"metaCreatedAfter">>>>,
            <<"meta.modified.before", <<"metaModifiedBefore">>>>,
            <<"meta.modified.after", <<"metaModifiedAfter">>>>,
            <<"expand", <<"expand">>>>,
            <<"expandReferenceNames", <<"expandReferenceNames">>>>,
            <<"sortkey", <<"sortkey">>>>,
            <<"limit", <<"limit">>>>,
            <<"pageToken", <<"pageToken">>>> >>],
     nested |->
        [name |-> "getSchoolUnitOfferings", kind |-> "list", method |-> "GET",
         path |-> "/schoolUnitOfferings", withId |-> FALSE,
         flags |-> <<>>, arrCheck |-> FALSE, validate |-> FALSE,
         map |-> <<
            <<"organisation", <<"organisation">>>>,
            <<"meta.created.before", <<"meta", "created", "before">>>>,
            <<"meta.created.after", <<"meta", "created", "after">>>>,
            <<"meta.modified.before", <<"meta", "modified", "before">>>>,
            <<"meta.modified.after", <<"meta", "modified", "after">>>>,
            <<"expandReferenceNames", <<"expandReferenceNames">>>>,
            <<"sortkey", <<"sortkey">>>>,
            <<"limit", <<"limit">>>>,
            <<"pageToken", <<"pageToken">>>> >>]]

\* src/ss12000-client.js lines 1010-1039; src/unnamed/part_003 lines 957-986
lookupSchoolUnitOfferings ==
    [flat |->
        [name |-> "lookupSchoolUnitOfferings", kind |-> "lookup", method |-> "POST",
         path |-> "/schoolUnitOfferings/lookup", withId |-> FALSE,
         flags |-> <<"expand", "expandReferenceNames">>, arrCheck |-> TRUE, validate |-> FALSE,
         map |-> <<>>],
     nested |->
        [name |-> "lookupSchoolUnitOfferings", kind |-> "lookup", method |-> "POST",
         path |-> "/schoolUnitOfferings/lookup", withId |-> FALSE,
         flags |-> <<"expandReferenceNames">>, arrCheck |-> TRUE, validate |-> FALSE,
         map |-> <<>>]]

\* src/ss12000-client.js lines 1048-1051; src/unnamed/part_003 lines 995-998
getSchoolUnitOfferingById ==
    [flat |->
        [name |-> "getSchoolUnitOfferingById", kind |-> "byId", method |-> "GET",
         path |-> "/schoolUnitOfferings", withId |-> TRUE,
         flags |-> <<"expand", "expandReferenceNames">>, arrCheck |-> FALSE, validate |-> FALSE,
         map |-> <<>>],
     nested |->
        [name |-> "getSchoolUnitOfferingById", kind |-> "byId", method |-> "GET",
         path |-> "/schoolUnitOfferings", withId |-> TRUE,
         flags |-> <<"expand", "expandReferenceNames">>, arrCheck |-> FALSE, validate |-> FALSE,
         map |-> <<>>]]

\* src/ss12000-client.js lines 1077-1098; src/unnamed/part_003 lines 1024-1045
getActivities ==
    [flat |->
        [name |-> "getActivities", kind |-> "list", method |-> "GET",
         path |-> "/activities", withId |-> FALSE,
         flags |-> <<>>, arrCheck |-> FALSE, validate |-> FALSE,
         map |-> <<
            <<"organisation", <<"organisation">>>>,
            <<"syllabus", <<"syllabus">>>>,
            <<"activityType", <<"activityType">>>>,
            <<"calendarEventsRequired", <<"calendarEventsRequired">>>>,
            <<"startDate.onOrBefore", <<"startDateOnOrBefore">>>>,
            <<"startDate.onOrAfter", <<"startDateOnOrAfter">>>>,
            <<"endDate.onOrBefore", <<"endDateOnOrBefore">>>>,
            <<"endDate.onOrAfter", <<"endDateOnOrAfter">>>>,
            <<"meta.created.before", <<"metaCreatedBefore">>>>,
            <<"meta.created.after", <<"metaCreatedAfter">>>>,
            <<"meta.modified.before", <<"metaModifiedBefore">>>>,
            <<"meta.modified.after", <<"metaModifiedAfter">>>>,
            <<"expand", <<"expand">>>>,
            <<"expandReferenceNames", <<"expandReferenceNames">>>>,
            <<"sortkey", <<"sortkey">>>>,
            <<"limit", <<"limit">>>>,
            <<"pageToken", <<"pageToken">>>> >>],
     nested |->
        [name |-> "getActivities", kind |-> "list", method |-> "GET",
         path |-> "/activities", withId |-> FALSE,
         flags |-> <<>>, arrCheck |-> FALSE, validate |-> FALSE,
         map |-> <<
            <<"organisation", <<"organisation">>>>,
            <<"member", <<"member">>>>,
            <<"teacher", <<"teacher">>>>,
            <<"activityType", <<"group">>>>,
            <<"startDate.onOrBefore", <<"startDate", "onOrBefore">>>>,
            <<"startDate.onOrAfter", <<"startDate", "onOrAfter">>>>,
            <<"endDate.onOrBefore", <<"endDate", "onOrBefore">>>>,
            <<"endDate.onOrAfter", <<"endDate", "onOrAfter">>>>,
            <<"meta.created.before", <<"meta", "created", "before">>>>,
            <<"meta.created.after", <<"meta", "created", "after">>>>,
            <<"meta.modified.before", <<"meta", "modified", "before">>>>,
            <<"meta.modified.after", <<"meta", "modified", "after">>>>,
            <<"expand", <<"expand">>>>,
            <<"expandReferenceNames", <<"expandReferenceNames">>>>,
            <<"sortkey", <<"sortkey">>>>,
            <<"limit", <<"limit">>>>,
            <<"pageToken", <<"pageToken">>>> >>]]

\* src/ss12000-client.js lines 1108-1137; src/unnamed/part_003 lines 1055-1084
lookupActivities ==
    [flat |->
        [name |-> "lookupActivities", kind |-> "lookup", method |-> "POST",
         path |-> "/activities/lookup", withId |-> FALSE,
         flags |-> <<"expand", "expandReferenceNames">>, arrCheck |-> TRUE, validate |-> FALSE,
         map |-> <<>>],
     nested |->
        [name |-> "lookupActivities", kind |-> "lookup", method |-> "POST",
         path |-> "/activities/lookup", withId |-> FALSE,
         flags |-> <<"expand", "expandReferenceNames">>, arrCheck |-> TRUE, validate |-> FALSE,
         map |-> <<>>]]

\* src/ss12000-client.js lines 1146-1149; src/unnamed/part_003 lines 1093-1096
getActivityById ==
    [flat |->
        [name |-> "getActivityById", kind |-> "byId", method |-> "GET",
         path |-> "/activities", withId |-> TRUE,
         flags |-> <<"expand", "expandReferenceNames">>, arrCheck |-> FALSE, validate |-> FALSE,
         map |-> <<>>],
     nested |->
        [name |-> "getActivityById", kind |-> "byId", method |-> "GET",
         path |-> "/activities", withId |-> TRUE,
         flags |-> <<"expand", "expandReferenceNames">>, arrCheck |-> FALSE, validate |-> FALSE,
         map |-> <<>>]]

\* src/ss12000-client.js lines 1175-1196; src/unnamed/part_003 lines 1123-1145
getCalendarEvents ==
    [flat |->
        [name |-> "getCalendarEvents", kind |-> "list", method |-> "GET",
         path |-> "/calendarEvents", withId |-> FALSE,
         flags |-> <<>>, arrCheck |-> FALSE, validate |-> FALSE,
         map |-> <<
            <<"activity", <<"activity">>>>,
            <<"startTime.onOrBefore", <<"startTimeOnOrBefore">>>>,
            <<"startTime.onOrAfter", <<"startTimeOnOrAfter">>>>,
            <<"endTime.onOrBefore", <<"endTimeOnOrBefore">>>>,
            <<"endTime.onOrAfter", <<"endTimeOnOrAfter">>>>,
            <<"cancelled", <<"cancelled">>>>,
            <<"room", <<"room">>>>,
            <<"resource", <<"resource">>>>,
            <<"meta.created.before", <<"metaCreatedBefore">>>>,
            <<"meta.created.after", <<"metaCreatedAfter">>>>,
            <<"meta.modified.before", <<"metaModifiedBefore">>>>,
            <<"meta.modified.after", <<"metaModifiedAfter">>>>,
            <<"expand", <<"expand">>>>,
            <<"expandReferenceNames", <<"expandReferenceNames">>>>,
            <<"sortkey", <<"sortkey">>>>,
            <<"limit", <<"limit">>>>,
            <<"pageToken", <<"pageToken">>>> >>],
     nested |->
        [name |-> "getCalendarEvents", kind |-> "list", method |-> "GET",
         path |-> "/calendarEvents", withId |-> FALSE,
         flags |-> <<>>, arrCheck |-> FALSE, validate |-> FALSE,
         map |-> <<
            <<"activity", <<"activity">>>>,
            <<"student", <<"student">>>>,
            <<"teacher", <<"teacher">>>>,
            <<"organisation", <<"organisation">>>>,
            <<"group", <<"group">>>>,
            <<"startTime.onOrBefore", <<"startTime", "onOrBefore">>>>,
            <<"startTime.onOrAfter", <<"startTime", "onOrAfter">>>>,
            <<"endTime.onOrBefore", <<"endTime", "onOrBefore">>>>,
            <<"endTime.onOrAfter", <<"endTime", "onOrAfter">>>>,
            <<"meta.created.before", <<"meta", "created", "before">>>>,
            <<"meta.created.after", <<"meta", "created", "after">>>>,
            <<"meta.modified.before", <<"meta", "modified", "before">>>>,
            <<"meta.modified.after", <<"meta", "modified", "after">>>>,
            <<"expand", <<"expand">>>>,
            <<"expandReferenceNames", <<"expandReferenceNames">>>>,
            <<"sortkey", <<"sortkey">>>>,
            <<"limit", <<"limit">>>>,
            <<"pageToken", <<"pageToken">>>> >>]]

\* src/ss12000-client.js lines 1206-1235; src/unnamed/part_003 lines 1154-1183
lookupCalendarEvents ==
    [flat |->
        [name |-> "lookupCalendarEvents", kind |-> "lookup", method |-> "POST",
         path |-> "/calendarEvents/lookup", withId |-> FALSE,
         flags |-> <<"expand", "expandReferenceNames">>, arrCheck |-> TRUE, validate |-> FALSE,
         map |-> <<>>],
     nested |->
        [name |-> "lookupCalendarEvents", kind |-> "lookup", method |-> "POST",
         path |-> "/calendarEvents/lookup", withId |-> FALSE,
         flags |-> <<"expandReferenceNames">>, arrCheck |-> TRUE, validate |-> FALSE,
         map |-> <<>>]]

\* src/ss12000-client.js lines 1244-1247; src/unnamed/part_003 lines 1192-1195
getCalendarEventById ==
    [flat |->
        [name |-> "getCalendarEventById", kind |-> "byId", method |-> "GET",
         path |-> "/calendarEvents", withId |-> TRUE,
         flags |-> <<"expand", "expandReferenceNames">>, arrCheck |-> FALSE, validate |-> FALSE,
         map |-> <<>>],
     nested |->
        [name |-> "getCalendarEventById", kind |-> "byId", method |-> "GET",
         path |-> "/calendarEvents", withId |-> TRUE,
         flags |-> <<"expand", "expandReferenceNames">>, arrCheck |-> FALSE, validate |-> FALSE,
         map |-> <<>>]]

\* src/ss12000-client.js lines 1271-1290; src/unnamed/part_003 lines 1214-1228
getAttendances ==
    [flat |->
        [name |-> "getAttendances", kind |-> "list", method |-> "GET",
         path |-> "/attendances", withId |-> FALSE,
         flags |-> <<>>, arrCheck |-> FALSE, validate |-> FALSE,
         map |-> <<
            <<"calendarEvent", <<"calendarEvent">>>>,
            <<"student", <<"student">>>>,
            <<"reporter", <<"reporter">>>>,
            <<"isReported", <<"isReported">>>>,
            <<"reportedTimestamp.onOrBefore", <<"reportedTimestampOnOrBefore">>>>,
            <<"reportedTimestamp.onOrAfter", <<"reportedTimestampOnOrAfter">>>>,
            <<"meta.created.before", <<"metaCreatedBefore">>>>,
            <<"meta.created.after", <<"metaCreatedAfter">>>>,
            <<"meta.modified.before", <<"metaModifiedBefore">>>>,
            <<"meta.modified.after", <<"metaModifiedAfter">>>>,
            <<"expand", <<"expand">>>>,
            <<"expandReferenceNames", <<"expandReferenceNames">>>>,
            <<"sortkey", <<"sortkey">>>>,
            <<"limit", <<"limit">>>>,
            <<"pageToken", <<"pageToken">>>> >>],
     nested |->
        [name |-> "getAttendances", kind |-> "list", method |-> "GET",
         path |-> "/attendances", withId |-> FALSE,
         flags |-> <<>>, arrCheck |-> FALSE, validate |-> FALSE,
         map |-> <<
            <<"calendarEvent", <<"calendarEvent">>>>,
            <<"student", <<"student">>>>,
            <<"organisation", <<"organisation">>>>,
            <<"meta.created.before", <<"meta", "created", "before">>>>,
            <<"meta.created.after", <<"meta", "created", "after">>>>,
            <<"meta.modified.before", <<"meta", "modified", "before">>>>,
            <<"meta.modified.after", <<"meta", "modified", "after">>>>,
            <<"expandReferenceNames", <<"expandReferenceNames">>>>,
            <<"limit", <<"limit">>>>,
            <<"pageToken", <<"pageToken">>>> >>]]

\* src/unnamed/part_003 lines 1236-1254
postAttendance ==
    [nested |->
        [name |-> "postAttendance", kind |-> "postInline", method |-> "POST",
         path |-> "/attendances", withId |-> FALSE,
         flags |-> <<>>, arrCheck |-> FALSE, validate |-> FALSE,
         map |-> <<>>]]

\* src/ss12000-client.js lines 1300-1329; src/unnamed/part_003 lines 1263-1292
lookupAttendances ==
    [flat |->
        [name |-> "lookupAttendances", kind |-> "lookup", method |-> "POST",
         path |-> "/attendances/lookup", withId |-> FALSE,
         flags |-> <<"expand", "expandReferenceNames">>, arrCheck |-> TRUE, validate |-> FALSE,
         map |-> <<>>],
     nested |->
        [name |-> "lookupAttendances", kind |-> "lookup", method |-> "POST",
         path |-> "/attendances/lookup", withId |-> FALSE,
         flags |-> <<"expandReferenceNames">>, arrCheck |-> TRUE, validate |-> FALSE,
         map |-> <<>>]]

\* src/ss12000-client.js lines 1338-1341; src/unnamed/part_003 lines 1299-1301
getAttendanceById ==
    [flat |->
        [name |-> "getAttendanceById", kind |-> "byId", method |-> "GET",
         path |-> "/attendances", withId |-> TRUE,
         flags |-> <<"expand", "expandReferenceNames">>, arrCheck |-> FALSE, validate |-> FALSE,
         map |-> <<>>],
     nested |->
        [name |-> "getAttendanceById", kind |-> "byId", method |-> "GET",
         path |-> "/attendances", withId |-> TRUE,
         flags |-> <<>>, arrCheck |-> FALSE, validate |-> FALSE,
         map |-> <<>>]]

\* src/ss12000-client.js lines 1348-1350; src/unnamed/part_003 lines 1308-1310
deleteAttendance ==
    [flat |->
        [name |-> "deleteAttendance", kind |-> "delete", method |-> "DELETE",
         path |-> "/attendances", withId |-> TRUE,
         flags |-> <<>>, arrCheck |-> FALSE, validate |-> FALSE,
         map |-> <<>>],
     nested |->
        [name |-> "deleteAttendance", kind |-> "delete", method |-> "DELETE",
         path |-> "/attendances", withId |-> TRUE,
         flags |-> <<>>, arrCheck |-> FALSE, validate |-> FALSE,
         map |-> <<>>]]

\* src/ss12000-client.js lines 1375-1395; src/unnamed/part_003 lines 1330-1345
getAttendanceEvents ==
    [flat |->
        [name |-> "getAttendanceEvents", kind |-> "list", method |-> "GET",
         path |-> "/attendanceEvents", withId |-> FALSE,
         flags |-> <<>>, arrCheck |-> FALSE, validate |-> FALSE,
         map |-> <<
            <<"person", <<"person">>>>,
            <<"registeredBy", <<"registeredBy">>>>,
            <<"group", <<"group">>>>,
            <<"room", <<"room">>>>,
            <<"time.onOrBefore", <<"timeOnOrBefore">>>>,
            <<"time.onOrAfter", <<"timeOnOrAfter">>>>,
            <<"eventType", <<"eventType">>>>,
            <<"meta.created.before", <<"metaCreatedBefore">>>>,
            <<"meta.created.after", <<"metaCreatedAfter">>>>,
            <<"meta.modified.before", <<"metaModifiedBefore">>>>,
            <<"meta.modified.after", <<"metaModifiedAfter">>>>,
            <<"expand", <<"expand">>>>,
            <<"expandReferenceNames", <<"expandReferenceNames">>>>,
            <<"sortkey", <<"sortkey">>>>,
            <<"limit", <<"limit">>>>,
            <<"pageToken", <<"pageToken">>>> >>],
     nested |->
        [name |-> "getAttendanceEvents", kind |-> "list", method |-> "GET",
         path |-> "/attendanceEvents", withId |-> FALSE,
         flags |-> <<>>, arrCheck |-> FALSE, validate |-> FALSE,
         map |-> <<
            <<"person", <<"person">>>>,
            <<"group", <<"group">>>>,
            <<"meta.created.before", <<"meta", "created", "before">>>>,
            <<"meta.created.after", <<"meta", "created", "after">>>>,
            <<"meta.modified.before", <<"meta", "modified", "before">>>>,
            <<"meta.modified.after", <<"meta", "modified", "after">>>>,
            <<"expand", <<"expand">>>>,
            <<"expandReferenceNames", <<"expandReferenceNames">>>>,
            <<"sortkey", <<"sortkey">>>>,
            <<"limit", <<"limit">>>>,
            <<"pageToken", <<"pageToken">>>> >>]]

\* src/unnamed/part_003 lines 1353-1371
postAttendanceEvent ==
    [nested |->
        [name |-> "postAttendanceEvent", kind |-> "postInline", method |-> "POST",
         path |-> "/attendanceEvents", withId |-> FALSE,
         flags |-> <<>>, arrCheck |-> FALSE, validate |-> FALSE,
         map |-> <<>>]]

\* src/ss12000-client.js lines 1405-1434; src/unnamed/part_003 lines 1381-1410
lookupAttendanceEvents ==
    [flat |->
        [name |-> "lookupAttendanceEvents", kind |-> "lookup", method |-> "POST",
         path |-> "/attendanceEvents/lookup", withId |-> FALSE,
         flags |-> <<"expand", "expandReferenceNames">>, arrCheck |-> TRUE, validate |-> FALSE,
         map |-> <<>>],
     nested |->
        [name |-> "lookupAttendanceEvents", kind |-> "lookup", method |-> "POST",
         path |-> "/attendanceEvents/lookup", withId |-> FALSE,
         flags |-> <<"expand", "expandReferenceNames">>, arrCheck |-> TRUE, validate |-> FALSE,
         map |-> <<>>]]

\* src/ss12000-client.js lines 1443-1446; src/unnamed/part_003 lines 1419-1422
getAttendanceEventById ==
    [flat |->
        [name |-> "getAttendanceEventById", kind |-> "byId", method |-> "GET",
         path |-> "/attendanceEvents", withId |-> TRUE,
         flags |-> <<"expand", "expandReferenceNames">>, arrCheck |-> FALSE, validate |-> FALSE,
         map |-> <<>>],
     nested |->
        [name |-> "getAttendanceEventById", kind |-> "byId", method |-> "GET",
         path |-> "/attendanceEvents", withId |-> TRUE,
         flags |-> <<"expand", "expandReferenceNames">>, arrCheck |-> FALSE, validate |-> FALSE,
         map |-> <<>>]]

\* src/unnamed/part_003 lines 1430-1432
deleteAttendanceEventById ==
    [nested |->
        [name |-> "deleteAttendanceEventById", kind |-> "delete", method |-> "DELETE",
         path |-> "/attendanceEvents", withId |-> TRUE,
         flags |-> <<>>, arrCheck |-> FALSE, validate |-> FALSE,
         map |-> <<>>]]

\* src/ss12000-client.js lines 1473-1495; src/unnamed/part_003 lines 1453-1469
getAttendanceSchedules ==
    [flat |->
        [name |-> "getAttendanceSchedules", kind |-> "list", method |-> "GET",
         path |-> "/attendanceSchedules", withId |-> FALSE,
         flags |-> <<>>, arrCheck |-> FALSE, validate |-> FALSE,
         map |-> <<
            <<"placement", <<"placement">>>>,
            <<"numberOfWeeks.onOrBefore", <<"numberOfWeeksOnOrBefore">>>>,
            <<"numberOfWeeks.onOrAfter", <<"numberOfWeeksOnOrAfter">>>>,
            <<"startDate.onOrBefore", <<"startDateOnOrBefore">>>>,
            <<"startDate.onOrAfter", <<"startDateOnOrAfter">>>>,
            <<"endDate.onOrBefore", <<"endDateOnOrBefore">>>>,
            <<"endDate.onOrAfter", <<"endDateOnOrAfter">>>>,
            <<"temporary", <<"temporary">>>>,
            <<"state", <<"state">>>>,
            <<"meta.created.before", <<"metaCreatedBefore">>>>,
            <<"meta.created.after", <<"metaCreatedAfter">>>>,
            <<"meta.modified.before", <<"metaModifiedBefore">>>>,
            <<"meta.modified.after", <<"metaModifiedAfter">>>>,
            <<"expand", <<"expand">>>>,
            <<"expandReferenceNames", <<"expandReferenceNames">>>>,
            <<"sortkey", <<"sortkey">>>>,
            <<"limit", <<"limit">>>>,
            <<"pageToken", <<"pageToken">>>> >>],
     nested |->
        [name |-> "getAttendanceSchedules", kind |-> "list", method |-> "GET",
         path |-> "/attendanceSchedules", withId |-> FALSE,
         flags |-> <<>>, arrCheck |-> FALSE, validate |-> FALSE,
         map |-> <<
            <<"placement", <<"placement">>>>,
            <<"startDate.onOrBefore", <<"startDate", "onOrBefore">>>>,
            <<"startDate.onOrAfter", <<"startDate", "onOrAfter">>>>,
            <<"endDate.onOrBefore", <<"endDate", "onOrBefore">>>>,
            <<"endDate.onOrAfter", <<"endDate", "onOrAfter">>>>,
            <<"meta.created.before", <<"meta", "created", "before">>>>,
            <<"meta.created.after", <<"meta", "created", "after">>>>,
            <<"meta.modified.before", <<"meta", "modified", "before">>>>,
            <<"meta.modified.after", <<"meta", "modified", "after">>>>,
            <<"expandReferenceNames", <<"expandReferenceNames">>>>,
            <<"limit", <<"limit">>>>,
            <<"pageToken", <<"pageToken">>>> >>]]

\* src/unnamed/part_003 lines 1477-1495
postAttendanceSchedule ==
    [nested |->
        [name |-> "postAttendanceSchedule", kind |-> "postInline", method |-> "POST",
         path |-> "/attendanceSchedules", withId |-> FALSE,
         flags |-> <<>>, arrCheck |-> FALSE, validate |-> FALSE,
         map |-> <<>>]]

\* src/ss12000-client.js lines 1505-1534; src/unnamed/part_003 lines 1504-1533
lookupAttendanceSchedules ==
    [flat |->
        [name |-> "lookupAttendanceSchedules", kind |-> "lookup", method |-> "POST",
         path |-> "/attendanceSchedules/lookup", withId |-> FALSE,
         flags |-> <<"expand", "expandReferenceNames">>, arrCheck |-> TRUE, validate |-> FALSE,
         map |-> <<>>],
     nested |->
        [name |-> "lookupAttendanceSchedules", kind |-> "lookup", method |-> "POST",
         path |-> "/attendanceSchedules/lookup", withId |-> FALSE,
         flags |-> <<"expandReferenceNames">>, arrCheck |-> TRUE, validate |-> FALSE,
         map |-> <<>>]]

\* src/ss12000-client.js lines 1543-1546; src/unnamed/part_003 lines 1542-1545
getAttendanceScheduleById ==
    [flat |->
        [name |-> "getAttendanceScheduleById", kind |-> "byId", method |-> "GET",
         path |-> "/attendanceSchedules", withId |-> TRUE,
         flags |-> <<"expand", "expandReferenceNames">>, arrCheck |-> FALSE, validate |-> FALSE,
         map |-> <<>>],
     nested |->
        [name |-> "getAttendanceScheduleById", kind |-> "byId", method |-> "GET",
         path |-> "/attendanceSchedules", withId |-> TRUE,
         flags |-> <<"expand", "expandReferenceNames">>, arrCheck |-> FALSE, validate |-> FALSE,
         map |-> <<>>]]

\* src/unnamed/part_003 lines 1552-1554
deleteAttendanceScheduleById ==
    [nested |->
        [name |-> "deleteAttendanceScheduleById", kind |-> "delete", method |-> "DELETE",
         path |-> "/attendanceSchedules", withId |-> TRUE,
         flags |-> <<>>, arrCheck |-> FALSE, validate |-> FALSE,
         map |-> <<>>]]

\* src/ss12000-client.js lines 1581-1611; src/unnamed/part_003 lines 1577-1595
getGrades ==
    [flat |->
        [name |-> "getGrades", kind |-> "list", method |-> "GET",
         path |-> "/grades", withId |-> FALSE,
         flags |-> <<>>, arrCheck |-> FALSE, validate |-> FALSE,
         map |-> <<
            <<"student", <<"student">>>>,
            <<"schoolUnit", <<"schoolUnit">>>>,
            <<"registeredBy", <<"registeredBy">>>>,
            <<"gradingTeacher", <<"gradingTeacher">>>>,
            <<"group", <<"group">>>>,
            <<"registeredDate.onOrBefore", <<"registeredDateOnOrBefore">>>>,
            <<"registeredDate.onOrAfter", <<"registeredDateOnOrAfter">>>>,
            <<"gradeValue", <<"gradeValue">>>>,
            <<"finalGrade", <<"finalGrade">>>>,
            <<"trial", <<"trial">>>>,
            <<"adaptedStudyPlan", <<"adaptedStudyPlan">>>>,
            <<"correctionType", <<"correctionType">>>>,
            <<"converted", <<"converted">>>>,
            <<"semester", <<"semester">>>>,
            <<"year.onOrBefore", <<"yearOnOrBefore">>>>,
            <<"year.onOrAfter", <<"yearOnOrAfter">>>>,
            <<"syllabus", <<"syllabus">>>>,
            <<"meta.created.before", <<"metaCreatedBefore">>>>,
            <<"meta.created.after", <<"metaCreatedAfter">>>>,
            <<"meta.modified.before", <<"metaModifiedBefore">>>>,
            <<"meta.modified.after", <<"metaModifiedAfter">>>>,
            <<"expand", <<"expand">>>>,
            <<"expandReferenceNames", <<"expandReferenceNames">>>>,
            <<"sortkey", <<"sortkey">>>>,
            <<"limit", <<"limit">>>>,
            <<"pageToken", <<"pageToken">>>> >>],
     nested |->
        [name |-> "getGrades", kind |-> "list", method |-> "GET",
         path |-> "/grades", withId |-> FALSE,
         flags |-> <<>>, arrCheck |-> FALSE, validate |-> FALSE,
         map |-> <<
            <<"student", <<"student">>>>,
            <<"registeredBy", <<"registeredBy">>>>,
            <<"gradingTeacher", <<"gradingTeacher">>>>,
            <<"orginsation", <<"orginsation">>>>,
            <<"registeredDate.onOrBefore", <<"registeredDate", "onOrBefore">>>>,
            <<"registeredDate.onOrAfter", <<"registeredDate", "onOrAfter">>>>,
            <<"meta.created.before", <<"meta", "created", "before">>>>,
            <<"meta.created.after", <<"meta", "created", "after">>>>,
            <<"meta.modified.before", <<"meta", "modified", "before">>>>,
            <<"meta.modified.after", <<"meta", "modified", "after">>>>,
            <<"expandReferenceNames", <<"expandReferenceNames">>>>,
            <<"sortkey", <<"sortkey">>>>,
            <<"limit", <<"limit">>>>,
            <<"pageToken", <<"pageToken">>>> >>]]

\* src/ss12000-client.js lines 1621-1650; src/unnamed/part_003 lines 1604-1633
lookupGrades ==
    [flat |->
        [name |-> "lookupGrades", kind |-> "lookup", method |-> "POST",
         path |-> "/grades/lookup", withId |-> FALSE,
         flags |-> <<"expand", "expandReferenceNames">>, arrCheck |-> TRUE, validate |-> FALSE,
         map |-> <<>>],
     nested |->
        [name |-> "lookupGrades", kind |-> "lookup", method |-> "POST",
         path |-> "/grades/lookup", withId |-> FALSE,
         flags |-> <<"expandReferenceNames">>, arrCheck |-> TRUE, validate |-> FALSE,
         map |-> <<>>]]

\* src/ss12000-client.js lines 1659-1662; src/unnamed/part_003 lines 1641-1644
getGradeById ==
    [flat |->
        [name |-> "getGradeById", kind |-> "byId", method |-> "GET",
         path |-> "/grades", withId |-> TRUE,
         flags |-> <<"expand", "expandReferenceNames">>, arrCheck |-> FALSE, validate |-> FALSE,
         map |-> <<>>],
     nested |->
        [name |-> "getGradeById", kind |-> "byId", method |-> "GET",
         path |-> "/grades", withId |-> TRUE,
         flags |-> <<"expandReferenceNames">>, arrCheck |-> FALSE, validate |-> FALSE,
         map |-> <<>>]]

\* src/unnamed/part_003 lines 1669-1689
getAbsences ==
    [nested |->
        [name |-> "getAbsences", kind |-> "list", method |-> "GET",
         path |-> "/absences", withId |-> FALSE,
         flags |-> <<>>, arrCheck |-> FALSE, validate |-> FALSE,
         map |-> <<
            <<"orginsation", <<"orginsation">>>>,
            <<"student", <<"student">>>>,
            <<"registeredBy", <<"registeredBy">>>>,
            <<"type", <<"type">>>>,
            <<"startDate.onOrBefore", <<"startDate", "onOrBefore">>>>,
            <<"startDate.onOrAfter", <<"startDate", "onOrAfter">>>>,
            <<"endDate.onOrBefore", <<"endDate", "onOrBefore">>>>,
            <<"endDate.onOrAfter", <<"endDate", "onOrAfter">>>>,
            <<"meta.created.before", <<"meta", "created", "before">>>>,
            <<"meta.created.after", <<"meta", "created", "after">>>>,
            <<"meta.modified.before", <<"meta", "modified", "before">>>>,
            <<"meta.modified.after", <<"meta", "modified", "after">>>>,
            <<"expandReferenceNames", <<"expandReferenceNames">>>>,
            <<"sortkey", <<"sortkey">>>>,
            <<"limit", <<"limit">>>>,
            <<"pageToken", <<"pageToken">>>> >>]]

\* src/unnamed/part_003 lines 1697-1715
postAbsence ==
    [nested |->
        [name |-> "postAbsence", kind |-> "postInline", method |-> "POST",
         path |-> "/absences", withId |-> FALSE,
         flags |-> <<>>, arrCheck |-> FALSE, validate |-> FALSE,
         map |-> <<>>]]

\* src/unnamed/part_003 lines 1724-1753
lookupAbsences ==
    [nested |->
        [name |-> "lookupAbsences", kind |-> "lookup", method |-> "POST",
         path |-> "/absences/lookup", withId |-> FALSE,
         flags |-> <<"expandReferenceNames">>, arrCheck |-> TRUE, validate |-> FALSE,
         map |-> <<>>]]

\* src/unnamed/part_003 lines 1760-1762
getAbsenceById ==
    [nested |->
        [name |-> "getAbsenceById", kind |-> "byId", method |-> "GET",
         path |-> "/absences", withId |-> TRUE,
         flags |-> <<>>, arrCheck |-> FALSE, validate |-> FALSE,
         map |-> <<>>]]

\* src/ss12000-client.js lines 1686-1705; src/unnamed/part_003 lines 1780-1793
getAggregatedAttendances ==
    [flat |->
        [name |-> "getAggregatedAttendances", kind |-> "list", method |-> "GET",
         path |-> "/aggregatedAttendance", withId |-> FALSE,
         flags |-> <<>>, arrCheck |-> FALSE, validate |-> FALSE,
         map |-> <<
            <<"activity", <<"activity">>>>,
            <<"student", <<"student">>>>,
            <<"startDate.onOrBefore", <<"startDateOnOrBefore">>>>,
            <<"startDate.onOrAfter", <<"startDateOnOrAfter">>>>,
            <<"endDate.onOrBefore", <<"endDateOnOrBefore">>>>,
            <<"endDate.onOrAfter", <<"endDateOnOrAfter">>>>,
            <<"meta.created.before", <<"metaCreatedBefore">>>>,
            <<"meta.created.after", <<"metaCreatedAfter">>>>,
            <<"meta.modified.before", <<"metaModifiedBefore">>>>,
            <<"meta.modified.after", <<"metaModifiedAfter">>>>,
            <<"expand", <<"expand">>>>,
            <<"expandReferenceNames", <<"expandReferenceNames">>>>,
            <<"sortkey", <<"sortkey">>>>,
            <<"limit", <<"limit">>>>,
            <<"pageToken", <<"pageToken">>>> >>],
     nested |->
        [name |-> "getAggregatedAttendances", kind |-> "list", method |-> "GET",
         path |-> "/aggregatedAttendance", withId |-> FALSE,
         flags |-> <<>>, arrCheck |-> FALSE, validate |-> FALSE,
         map |-> <<
            <<"startDate.onOrBefore", <<"startDate">>>>,
            <<"endDate.onOrBefore", <<"endDate">>>>,
            <<"organisation", <<"organisation">>>>,
            <<"schoolType", <<"schoolType">>>>,
            <<"student", <<"student">>>>,
            <<"expand", <<"expand">>>>,
            <<"expandReferenceNames", <<"expandReferenceNames">>>>,
            <<"limit", <<"limit">>>>,
            <<"pageToken", <<"pageToken">>>> >>]]

\* src/ss12000-client.js lines 1775-1789; src/unnamed/part_003 lines 1813-1826
getResources ==
    [flat |->
        [name |-> "getResources", kind |-> "list", method |-> "GET",
         path |-> "/resources", withId |-> FALSE,
         flags |-> <<>>, arrCheck |-> FALSE, validate |-> FALSE,
         map |-> <<
            <<"owner", <<"owner">>>>,
            <<"nameContains", <<"nameContains">>>>,
            <<"meta.created.before", <<"metaCreatedBefore">>>>,
            <<"meta.created.after", <<"metaCreatedAfter">>>>,
            <<"meta.modified.before", <<"metaModifiedBefore">>>>,
            <<"meta.modified.after", <<"metaModifiedAfter">>>>,
            <<"expandReferenceNames", <<"expandReferenceNames">>>>,
            <<"sortkey", <<"sortkey">>>>,
            <<"limit", <<"limit">>>>,
            <<"pageToken", <<"pageToken">>>> >>],
     nested |->
        [name |-> "getResources", kind |-> "list", method |-> "GET",
         path |-> "/resources", withId |-> FALSE,
         flags |-> <<>>, arrCheck |-> FALSE, validate |-> FALSE,
         map |-> <<
            <<"organisation", <<"organisation">>>>,
            <<"meta.created.before", <<"meta", "created", "before">>>>,
            <<"meta.created.after", <<"meta", "created", "after">>>>,
            <<"meta.modified.before", <<"meta", "modified", "before">>>>,
            <<"meta.modified.after", <<"meta", "modified", "after">>>>,
            <<"expandReferenceNames", <<"expandReferenceNames">>>>,
            <<"sortkey", <<"sortkey">>>>,
            <<"limit", <<"limit">>>>,
            <<"pageToken", <<"pageToken">>>> >>]]

\* src/ss12000-client.js lines 1798-1823; src/unnamed/part_003 lines 1835-1860
lookupResources ==
    [flat |->
        [name |-> "lookupResources", kind |-> "lookup", method |-> "POST",
         path |-> "/resources/lookup", withId |-> FALSE,
         flags |-> <<"expandReferenceNames">>, arrCheck |-> FALSE, validate |-> FALSE,
         map |-> <<>>],
     nested |->
        [name |-> "lookupResources", kind |-> "lookup", method |-> "POST",
         path |-> "/resources/lookup", withId |-> FALSE,
         flags |-> <<"expandReferenceNames">>, arrCheck |-> FALSE, validate |-> FALSE,
         map |-> <<>>]]

\* src/ss12000-client.js lines 1831-1834; src/unnamed/part_003 lines 1868-1871
getResourceById ==
    [flat |->
        [name |-> "getResourceById", kind |-> "byId", method |-> "GET",
         path |-> "/resources", withId |-> TRUE,
         flags |-> <<"expandReferenceNames">>, arrCheck |-> FALSE, validate |-> FALSE,
         map |-> <<>>],
     nested |->
        [name |-> "getResourceById", kind |-> "byId", method |-> "GET",
         path |-> "/resources", withId |-> TRUE,
         flags |-> <<"expandReferenceNames">>, arrCheck |-> FALSE, validate |-> FALSE,
         map |-> <<>>]]

\* src/ss12000-client.js lines 1853-1867; src/unnamed/part_003 lines 1889-1902
getRooms ==
    [flat |->
        [name |-> "getRooms", kind |-> "list", method |-> "GET",
         path |-> "/rooms", withId |-> FALSE,
         flags |-> <<>>, arrCheck |-> FALSE, validate |-> FALSE,
         map |-> <<
            <<"owner", <<"owner">>>>,
            <<"nameContains", <<"nameContains">>>>,
            <<"meta.created.before", <<"metaCreatedBefore">>>>,
            <<"meta.created.after", <<"metaCreatedAfter">>>>,
            <<"meta.modified.before", <<"metaModifiedBefore">>>>,
            <<"meta.modified.after", <<"metaModifiedAfter">>>>,
            <<"expandReferenceNames", <<"expandReferenceNames">>>>,
            <<"sortkey", <<"sortkey">>>>,
            <<"limit", <<"limit">>>>,
            <<"pageToken", <<"pageToken">>>> >>],
     nested |->
        [name |-> "getRooms", kind |-> "list", method |-> "GET",
         path |-> "/rooms", withId |-> FALSE,
         flags |-> <<>>, arrCheck |-> FALSE, validate |-> FALSE,
         map |-> <<
            <<"owner", <<"organisation">>>>,
            <<"meta.created.before", <<"meta", "created", "before">>>>,
            <<"meta.created.after", <<"meta", "created", "after">>>>,
            <<"meta.modified.before", <<"meta", "modified", "before">>>>,
            <<"meta.modified.after", <<"meta", "modified", "after">>>>,
            <<"expandReferenceNames", <<"expandReferenceNames">>>>,
            <<"sortkey", <<"sortkey">>>>,
            <<"limit", <<"limit">>>>,
            <<"pageToken", <<"pageToken">>>> >>]]

\* src/ss12000-client.js lines 1876-1901; src/unnamed/part_003 lines 1911-1936
lookupRooms ==
    [flat |->
        [name |-> "lookupRooms", kind |-> "lookup", method |-> "POST",
         path |-> "/rooms/lookup", withId |-> FALSE,
         flags |-> <<"expandReferenceNames">>, arrCheck |-> FALSE, validate |-> FALSE,
         map |-> <<>>],
     nested |->
        [name |-> "lookupRooms", kind |-> "lookup", method |-> "POST",
         path |-> "/rooms/lookup", withId |-> FALSE,
         flags |-> <<"expandReferenceNames">>, arrCheck |-> FALSE, validate |-> FALSE,
         map |-> <<>>]]

\* src/ss12000-client.js lines 1909-1912; src/unnamed/part_003 lines 1944-1947
getRoomById ==
    [flat |->
        [name |-> "getRoomById", kind |-> "byId", method |-> "GET",
         path |-> "/rooms", withId |-> TRUE,
         flags |-> <<"expandReferenceNames">>, arrCheck |-> FALSE, validate |-> FALSE,
         map |-> <<>>],
     nested |->
        [name |-> "getRoomById", kind |-> "byId", method |-> "GET",
         path |-> "/rooms", withId |-> TRUE,
         flags |-> <<"expandReferenceNames">>, arrCheck |-> FALSE, validate |-> FALSE,
         map |-> <<>>]]

\* src/ss12000-client.js lines 1923-1925; src/unnamed/part_003 lines 1958-1960
getSubscriptions ==
    [flat |->
        [name |-> "getSubscriptions", kind |-> "raw", method |-> "GET",
         path |-> "/subscriptions", withId |-> FALSE,
         flags |-> <<>>, arrCheck |-> FALSE, validate |-> FALSE,
         map |-> <<>>],
     nested |->
        [name |-> "getSubscriptions", kind |-> "raw", method |-> "GET",
         path |-> "/subscriptions", withId |-> FALSE,
         flags |-> <<>>, arrCheck |-> FALSE, validate |-> FALSE,
         map |-> <<>>]]

\* src/ss12000-client.js lines 1936-1938; src/unnamed/part_003 lines 1971-1973
createSubscription ==
    [flat |->
        [name |-> "createSubscription", kind |-> "post", method |-> "POST",
         path |-> "/subscriptions", withId |-> FALSE,
         flags |-> <<>>, arrCheck |-> FALSE, validate |-> FALSE,
         map |-> <<>>],
     nested |->
        [name |-> "createSubscription", kind |-> "post", method |-> "POST",
         path |-> "/subscriptions", withId |-> FALSE,
         flags |-> <<>>, arrCheck |-> FALSE, validate |-> FALSE,
         map |-> <<>>]]

\* src/ss12000-client.js lines 1945-1947; src/unnamed/part_003 lines 1980-1982
deleteSubscription ==
    [flat |->
        [name |-> "deleteSubscription", kind |-> "delete", method |-> "DELETE",
         path |-> "/subscriptions", withId |-> TRUE,
         flags |-> <<>>, arrCheck |-> FALSE, validate |-> FALSE,
         map |-> <<>>],
     nested |->
        [name |-> "deleteSubscription", kind |-> "delete", method |-> "DELETE",
         path |-> "/subscriptions", withId |-> TRUE,
         flags |-> <<>>, arrCheck |-> FALSE, validate |-> FALSE,
         map |-> <<>>]]

\* src/ss12000-client.js lines 1954-1956; src/unnamed/part_003 lines 1989-1991
getSubscriptionById ==
    [flat |->
        [name |-> "getSubscriptionById", kind |-> "byId", method |-> "GET",
         path |-> "/subscriptions", withId |-> TRUE,
         flags |-> <<>>, arrCheck |-> FALSE, validate |-> FALSE,
         map |-> <<>>],
     nested |->
        [name |-> "getSubscriptionById", kind |-> "byId", method |-> "GET",
         path |-> "/subscriptions", withId |-> TRUE,
         flags |-> <<>>, arrCheck |-> FALSE, validate |-> FALSE,
         map |-> <<>>]]

\* src/ss12000-client.js lines 1964-1966; src/unnamed/part_003 lines 1999-2001
updateSubscription ==
    [flat |->
        [name |-> "updateSubscription", kind |-> "patch", method |-> "PATCH",
         path |-> "/subscriptions", withId |-> TRUE,
         flags |-> <<>>, arrCheck |-> FALSE, validate |-> FALSE,
         map |-> <<>>],
     nested |->
        [name |-> "updateSubscription", kind |-> "patch", method |-> "PATCH",
         path |-> "/subscriptions", withId |-> TRUE,
         flags |-> <<>>, arrCheck |-> FALSE, validate |-> FALSE,
         map |-> <<>>]]

\* src/unnamed/part_003 lines 2011-2033
postLog ==
    [nested |->
        [name |-> "postLog", kind |-> "postInline", method |-> "POST",
         path |-> "/log/", withId |-> FALSE,
         flags |-> <<>>, arrCheck |-> FALSE, validate |-> TRUE,
         map |-> <<>>]]

\* src/unnamed/part_003 lines 2043-2065
postStatistics ==
    [nested |->
        [name |-> "postStatistics", kind |-> "postInline", method |-> "POST",
         path |-> "/statistics/", withId |-> FALSE,
         flags |-> <<>>, arrCheck |-> FALSE, validate |-> TRUE,
         map |-> <<>>]]

\* src/ss12000-client.js lines 1977-1983; src/unnamed/part_003 lines 2078-2086
getDeletedEntities ==
    [flat |->
        [name |-> "getDeletedEntities", kind |-> "list", method |-> "GET",
         path |-> "/deletedEntities", withId |-> FALSE,
         flags |-> <<>>, arrCheck |-> FALSE, validate |-> FALSE,
         map |-> <<
            <<"entities", <<"entities">>>>,
            <<"meta.modified.after", <<"metaModifiedAfter">>>> >>],
     nested |->
        [name |-> "getDeletedEntities", kind |-> "list", method |-> "GET",
         path |-> "/deletedEntities", withId |-> FALSE,
         flags |-> <<>>, arrCheck |-> FALSE, validate |-> FALSE,
         map |-> <<
            <<"after", <<"after">>>>,
            <<"entities", <<"entities">>>>,
            <<"limit", <<"limit">>>>,
            <<"pageToken", <<"pageToken">>>> >>]]

\* src/ss12000-client.js lines 1715-1744
lookupAggregatedAttendances ==
    [flat |->
        [name |-> "lookupAggregatedAttendances", kind |-> "lookup", method |-> "POST",
         path |-> "/aggregatedAttendance/lookup", withId |-> FALSE,
         flags |-> <<"expand", "expandReferenceNames">>, arrCheck |-> TRUE, validate |-> FALSE,
         map |-> <<>>]]

\* src/ss12000-client.js lines 1753-1756
getAggregatedAttendanceById ==
    [flat |->
        [name |-> "getAggregatedAttendanceById", kind |-> "byId", method |-> "GET",
         path |-> "/aggregatedAttendance", withId |-> TRUE,
         flags |-> <<"expand", "expandReferenceNames">>, arrCheck |-> FALSE, validate |-> FALSE,
         map |-> <<>>]]

\* src/ss12000-client.js lines 2004-2020
getLog ==
    [flat |->
        [name |-> "getLog", kind |-> "list", method |-> "GET",
         path |-> "/log", withId |-> FALSE,
         flags |-> <<>>, arrCheck |-> FALSE, validate |-> FALSE,
         map |-> <<
            <<"source", <<"source">>>>,
            <<"target", <<"target">>>>,
            <<"eventType", <<"eventType">>>>,
            <<"timestamp.onOrBefore", <<"timestampOnOrBefore">>>>,
            <<"timestamp.onOrAfter", <<"timestampOnOrAfter">>>>,
            <<"meta.created.before", <<"metaCreatedBefore">>>>,
            <<"meta.created.after", <<"metaCreatedAfter">>>>,
            <<"meta.modified.before", <<"metaModifiedBefore">>>>,
            <<"meta.modified.after", <<"metaModifiedAfter">>>>,
            <<"sortkey", <<"sortkey">>>>,
            <<"limit", <<"limit">>>>,
            <<"pageToken", <<"pageToken">>>> >>]]

\* src/ss12000-client.js lines 2041-2057
getStatistics ==
    [flat |->
        [name |-> "getStatistics", kind |-> "list", method |-> "GET",
         path |-> "/statistics", withId |-> FALSE,
         flags |-> <<>>, arrCheck |-> FALSE, validate |-> FALSE,
         map |-> <<
            <<"source", <<"source">>>>,
            <<"target", <<"target">>>>,
            <<"statisticType", <<"statisticType">>>>,
            <<"timestamp.onOrBefore", <<"timestampOnOrBefore">>>>,
            <<"timestamp.onOrAfter", <<"timestampOnOrAfter">>>>,
            <<"meta.created.before", <<"metaCreatedBefore">>>>,
            <<"meta.created.after", <<"metaCreatedAfter">>>>,
            <<"meta.modified.before", <<"metaModifiedBefore">>>>,
            <<"meta.modified.after", <<"metaModifiedAfter">>>>,
            <<"sortkey", <<"sortkey">>>>,
            <<"limit", <<"limit">>>>,
            <<"pageToken", <<"pageToken">>>> >>]]

\* the public methods of src/ss12000-client.js, in source order
Methods_flat ==
<<
    getOrganisations.flat, lookupOrganisations.flat, getOrganisationById.flat,
    getPersons.flat, lookupPersons.flat, getPersonById.flat,
    getPlacements.flat, lookupPlacements.flat, getPlacementById.flat,
    getDuties.flat, lookupDuties.flat, getDutyById.flat,
    getGroups.flat, lookupGroups.flat, getGroupById.flat,
    getProgrammes.flat, lookupProgrammes.flat, getProgrammeById.flat,
    getStudyPlans.flat, lookupStudyPlans.flat, getStudyPlanById.flat,
    getSyllabuses.flat, lookupSyllabuses.flat, getSyllabusById.flat,
    getSchoolUnitOfferings.flat, lookupSchoolUnitOfferings.flat, getSchoolUnitOfferingById.flat,
    getActivities.flat, lookupActivities.flat, getActivityById.flat,
    getCalendarEvents.flat, lookupCalendarEvents.flat, getCalendarEventById.flat,
    getAttendances.flat, lookupAttendances.flat, getAttendanceById.flat,
    deleteAttendance.flat, getAttendanceEvents.flat, lookupAttendanceEvents.flat,
    getAttendanceEventById.flat, getAttendanceSchedules.flat, lookupAttendanceSchedules.flat,
    getAttendanceScheduleById.flat, getGrades.flat, lookupGrades.flat,
    getGradeById.flat, getAggregatedAttendances.flat, lookupAggregatedAttendances.flat,
    getAggregatedAttendanceById.flat, getResources.flat, lookupResources.flat,
    getResourceById.flat, getRooms.flat, lookupRooms.flat,
    getRoomById.flat, getSubscriptions.flat, createSubscription.flat,
    deleteSubscription.flat, getSubscriptionById.flat, updateSubscription.flat,
    getDeletedEntities.flat, getLog.flat, getStatistics.flat >>

\* the public methods of src/unnamed/part_003, in source order
Methods_nested ==
<<
    getOrganisations.nested, lookupOrganisations.nested, getOrganisationById.nested,
    getPersons.nested, lookupPersons.nested, getPersonById.nested,
    getPlacements.nested, lookupPlacements.nested, getPlacementById.nested,
    getDuties.nested, lookupDuties.nested, getDutyById.nested,
    getGroups.nested, lookupGroups.nested, getGroupById.nested,
    getProgrammes.nested, lookupProgrammes.nested, getProgrammeById.nested,
    getStudyPlans.nested, lookupStudyPlans.nested, getStudyPlanById.nested,
    getSyllabuses.nested, lookupSyllabuses.nested, getSyllabusById.nested,
    getSchoolUnitOfferings.nested, lookupSchoolUnitOfferings.nested, getSchoolUnitOfferingById.nested,
    getActivities.nested, lookupActivities.nested, getActivityById.nested,
    getCalendarEvents.nested, lookupCalendarEvents.nested, getCalendarEventById.nested,
    getAttendances.nested, postAttendance.nested, lookupAttendances.nested,
    getAttendanceById.nested, deleteAttendance.nested, getAttendanceEvents.nested,
    postAttendanceEvent.nested, lookupAttendanceEvents.nested, getAttendanceEventById.nested,
    deleteAttendanceEventById.nested, getAttendanceSchedules.nested, postAttendanceSchedule.nested,
    lookupAttendanceSchedules.nested, getAttendanceScheduleById.nested, deleteAttendanceScheduleById.nested,
    getGrades.nested, lookupGrades.nested, getGradeById.nested,
    getAbsences.nested, postAbsence.nested, lookupAbsences.nested,
    getAbsenceById.nested, getAggregatedAttendances.nested, getResources.nested,
    lookupResources.nested, getResourceById.nested, getRooms.nested,
    lookupRooms.nested, getRoomById.nested, getSubscriptions.nested,
    createSubscription.nested, deleteSubscription.nested, getSubscriptionById.nested,
    updateSubscription.nested, postLog.nested, postStatistics.nested,
    getDeletedEntities.nested >>


(***************************************************************************)
(* The client: constructor and dispatcher                                  *)
(***************************************************************************)
\* the methods with, in every mapping, a second entry for its first wire
\* key that reads the caller field `bogus`
Methods_DuplicateKey ==
    LET T == IF variant = "flat" THEN Methods_flat ELSE Methods_nested
    IN [i \in 1..Len(T) |->
          IF T[i].kind = "list"
          THEN [T[i] EXCEPT !.map = Append(@, <<@[1][1], <<"bogus">>>>)]
          ELSE T[i]]

Methods == IF variant = "flat" THEN Methods_flat ELSE Methods_nested

Err(name, message) == [name |-> name, message |-> message]

NoError == Err("", <<>>)

\* this.headers as the constructor leaves it
Headers(authToken) ==
    <<<<"Content-Type", "application/json">>, <<"Accept", "application/json">>>>
    \o (IF Falsy(authToken) THEN <<>>
        ELSE <<<<"Authorization", "Bearer " \o ToStr(authToken)>>>>)

\* the base URLs for which baseUrl.startsWith('https://') holds
HttpsUrls == {Str("https://api.example.org/v2.0")}

NoRequest ==
    [method |-> "", origin |-> "", pathname |-> "", searchParams |-> <<>>,
     headers |-> <<>>, body |-> Undefined]

NoResponse == [status |-> 0, statusText |-> "", body |-> ""]

\* a default parameter value (x = d) replaces undefined only
Default(v, d) == IF v.t = "undefined" THEN d ELSE v

\* SearchParams with the test `params[key] !== null` left out
RECURSIVE SearchParams_KeepNull(_, _, _)
SearchParams_KeepNull(entries, arrCheck, acc) ==
    IF entries = <<>> THEN acc
    ELSE LET k == Head(entries)[1]
             v == Head(entries)[2]
         IN SearchParams_KeepNull(Tail(entries), arrCheck,
                IF v.t = "undefined" THEN acc
                ELSE IF arrCheck /\ v.t = "array"
                     THEN acc \o [i \in 1..Len(v.a) |-> <<k, ToStr(v.a[i])>>]
                     ELSE Append(acc, <<k, ToStr(v)>>))

\* SearchParams with the Array.isArray branch left out
RECURSIVE SearchParams_NoArrayBranch(_, _, _)
SearchParams_NoArrayBranch(entries, arrCheck, acc) ==
    IF entries = <<>> THEN acc
    ELSE LET k == Head(entries)[1]
             v == Head(entries)[2]
         IN SearchParams_NoArrayBranch(Tail(entries), arrCheck,
                IF IsNullish(v) THEN acc
                ELSE Append(acc, <<k, ToStr(v)>>))

\* the Object.keys(params).forEach(...) loop that fills url.searchParams:
\* undefined and null are skipped; with the Array.isArray branch an array is
\* appended once per item, without it the array is appended as one value
RECURSIVE SearchParams(_, _, _)
SearchParams(entries, arrCheck, acc) ==
    IF entries = <<>> THEN acc
    ELSE LET k == Head(entries)[1]
             v == Head(entries)[2]
         IN SearchParams(Tail(entries), arrCheck,
                IF IsNullish(v) THEN acc
                ELSE IF arrCheck /\ v.t = "array"
                     THEN acc \o [i \in 1..Len(v.a) |-> <<k, ToStr(v.a[i])>>]
                     ELSE Append(acc, <<k, ToStr(v)>>))

\* url.searchParams.toString()
RECURSIVE Serialize(_)
Serialize(pairs) ==
    IF pairs = <<>> THEN ""
    ELSE Head(pairs)[1] \o "=" \o Head(pairs)[2]
         \o (IF Len(pairs) > 1 THEN "&" \o Serialize(Tail(pairs)) ELSE "")

\* _get that appends to the search parameters of a GET still in flight (one
\* URL object kept between calls) instead of starting from a new URL
_get_SharedUrl(path, params) ==
    LET busy == {d \in DOMAIN calls :
                    calls[d].pc = "fetching" /\ calls[d].request.method = "GET"}
        kept == IF busy = {} THEN <<>>
                ELSE calls[CHOOSE d \in busy : TRUE].request.searchParams
    IN [method |-> "GET", origin |-> session.baseUrl, pathname |-> path,
        searchParams |-> SearchParams(Default(params, EmptyObj).e, TRUE, kept),
        headers |-> session.headers, body |-> Undefined]

\* the synchronous part of _get: URL and fetch options
_get(path, params) ==
    [method |-> "GET", origin |-> session.baseUrl, pathname |-> path,
     searchParams |-> SearchParams(Default(params, EmptyObj).e, TRUE, <<>>),
     headers |-> session.headers, body |-> Undefined]

\* _post that appends the members of the body to the query string and sends
\* no request body
_post_BodyInQuery(path, body) ==
    [method |-> "POST", origin |-> session.baseUrl, pathname |-> path,
     searchParams |-> IF body.t = "object" THEN SearchParams(body.e, TRUE, <<>>) ELSE <<>>,
     headers |-> session.headers, body |-> Undefined]

_post(path, body) ==
    [method |-> "POST", origin |-> session.baseUrl, pathname |-> path,
     searchParams |-> <<>>, headers |-> session.headers, body |-> JSONstringify(body)]

\* _delete with the `headers: this.headers` option left out
_delete_NoHeaders(path) ==
    [method |-> "DELETE", origin |-> session.baseUrl, pathname |-> path,
     searchParams |-> <<>>, headers |-> <<>>, body |-> Undefined]

_delete(path) ==
    [method |-> "DELETE", origin |-> session.baseUrl, pathname |-> path,
     searchParams |-> <<>>, headers |-> session.headers, body |-> Undefined]

_patch(path, body) ==
    [method |-> "PATCH", origin |-> session.baseUrl, pathname |-> path,
     searchParams |-> <<>>, headers |-> session.headers, body |-> JSONstringify(body)]

(***************************************************************************)
(* Resource methods: the synchronous part, up to the fetch call            *)
(***************************************************************************)
\* the mappedParams object literal of a list method, evaluated entry by entry
RECURSIVE MappedParams(_, _, _)
MappedParams(map, params, acc) ==
    IF map = <<>> THEN [threw |-> FALSE, v |-> acc]
    ELSE LET r == ReadPath(params, Head(map)[2])
         IN IF r.threw THEN [threw |-> TRUE, v |-> Undefined]
            ELSE MappedParams(Tail(map), params, Put(acc, Head(map)[1], r.v))

\* FlagParams of a signature without the defaults `expand = []` and
\* `expandReferenceNames = false`
FlagParams_NoDefaults(m, args) ==
    ObjectLiteral([i \in 1..Len(m.flags) |->
        <<m.flags[i],
          IF m.flags[i] = "expand" THEN args.expand ELSE args.expandReferenceNames>>],
        EmptyObj)

\* const params = { expand, expandReferenceNames } with the defaults applied
FlagParams(m, args) ==
    ObjectLiteral([i \in 1..Len(m.flags) |->
        <<m.flags[i],
          IF m.flags[i] = "expand" THEN Default(args.expand, Arr(<<>>))
          ELSE Default(args.expandReferenceNames, Bool(FALSE))>>], EmptyObj)

\* `${path}/${id}`
IdPath(m, args) == IF m.withId THEN m.path \o "/" \o ToStr(args.id) ELSE m.path

\* a validation that rejects only a body that was not passed at all
BodyMissing_OnlyUndefined(body) == body = Undefined

\* !body || typeof body !== 'object'
BodyMissing(body) ==
    \/ IsNullish(body)
    \/ body.t \in {"string", "number", "boolean"}

Threw(e) == [threw |-> TRUE, error |-> e, request |-> NoRequest]

Sent(r) == [threw |-> FALSE, error |-> NoError, request |-> r]

\* Lookup with the flags merged into the JSON body instead of the query
Lookup_FlagsInBody(m, args) ==
    [method |-> m.method, origin |-> session.baseUrl, pathname |-> m.path,
     searchParams |-> <<>>, headers |-> session.headers,
     body |-> JSONstringify(ObjectLiteral(FlagParams(m, args).e,
                                          Default(args.body, EmptyObj)))]

\* a lookup method: the flags go to url.searchParams, the body argument to the
\* request body
Lookup(m, args) ==
    [method |-> m.method, origin |-> session.baseUrl, pathname |-> m.path,
     searchParams |-> SearchParams(FlagParams(m, args).e, m.arrCheck, <<>>),
     headers |-> session.headers, body |-> JSONstringify(args.body)]

\* postAttendance, postLog, ...: a POST written out in the method itself
PostInline(m, args) ==
    [method |-> m.method, origin |-> session.baseUrl, pathname |-> m.path,
     searchParams |-> <<>>, headers |-> session.headers,
     body |-> JSONstringify(args.body)]

\* what method m does with args before its first await: it throws, or it
\* hands one request to fetch
Build(m, args) ==
    CASE m.kind = "list" ->
            LET mp == MappedParams(m.map, Default(args.params, EmptyObj), EmptyObj)
            IN IF mp.threw
               THEN Threw(Err("TypeError", <<"Cannot read properties of undefined">>))
               ELSE Sent(_get(m.path, mp.v))
      [] m.kind = "raw" -> Sent(_get(m.path, Default(args.params, EmptyObj)))
      [] m.kind = "byId" ->
            IF m.flags = <<>> THEN Sent(_get(IdPath(m, args), Undefined))
            ELSE Sent(_get(IdPath(m, args), FlagParams(m, args)))
      [] m.kind = "lookup" -> Sent(Lookup(m, args))
      [] m.kind = "postInline" ->
            IF m.validate /\ BodyMissing(args.body)
            THEN Threw(Err("Error", <<"body is required">>))
            ELSE Sent(PostInline(m, args))
      [] m.kind = "post" -> Sent(_post(IdPath(m, args), args.body))
      [] m.kind = "delete" -> Sent(_delete(IdPath(m, args)))
      [] m.kind = "patch" -> Sent(_patch(IdPath(m, args), args.body))

(***************************************************************************)
(* Responses                                                               *)
(***************************************************************************)
\* response.ok
Ok(response) == response.status >= 200 /\ response.status <= 299

\* the JSON documents a server answers with
JsonValues ==
    { Obj(<<<<"error", Str("not_found")>>>>),
      Obj(<<<<"data", Arr(<<>>)>>>>),
      Bool(TRUE) }

\* response.json(): the parsed body, or a rejection when the text is not JSON
JSONparse(text) ==
    IF \E v \in JsonValues : JsonText(v) = text
    THEN [ok |-> TRUE, v |-> CHOOSE v \in JsonValues : JsonText(v) = text]
    ELSE [ok |-> FALSE, v |-> Undefined]

BodyTexts == {JsonText(v) : v \in JsonValues} \cup {"", "<html>Bad Gateway</html>"}

StatusTexts ==
    (200 :> "OK") @@ (201 :> "Created") @@ (204 :> "No Content")
    @@ (404 :> "Not Found") @@ (500 :> "Internal Server Error")

\* a 204 response has no body
Responses ==
    { r \in [status : DOMAIN StatusTexts, statusText : {"OK", "Created", "No Content", "Not Found", "Internal Server Error"}, body : BodyTexts] :
        /\ r.statusText = StatusTexts[r.status]
        /\ r.status = 204 => r.body = "" }

(***************************************************************************)
(* Calls                                                                   *)
(***************************************************************************)
NoArgs ==
    [params |-> Undefined, id |-> Undefined, body |-> Undefined,
     expand |-> Undefined, expandReferenceNames |-> Undefined]

IdleCall ==
    [pc |-> "idle", name |-> "", args |-> NoArgs, request |-> NoRequest, fetches |-> 0,
     response |-> NoResponse, settled |-> "pending", value |-> Undefined,
     error |-> NoError, logged |-> FALSE]

MethodNamed(n) == Methods[CHOOSE i \in 1..Len(Methods) : Methods[i].name = n]

\* no client yet; `given` keeps the arguments the constructor is called with
NewSession ==
    [state |-> "new", baseUrl |-> "", headers |-> <<>>, warnings |-> {},
     given |-> [baseUrl |-> Undefined, authToken |-> Undefined]]

\* Constructed that throws for an undefined or null base URL only
Constructed_EmptyUrlAccepted(baseUrl, authToken) ==
    IF IsNullish(baseUrl)
    THEN [NewSession EXCEPT !.state = "failed",
                            !.given = [baseUrl |-> baseUrl, authToken |-> authToken]]
    ELSE [state |-> "ready", baseUrl |-> ToStr(baseUrl),
          headers |-> Headers(authToken),
          warnings |-> {w \in {"not https", "no token"} :
                           \/ w = "not https" /\ baseUrl \notin HttpsUrls
                           \/ w = "no token" /\ Falsy(authToken)},
          given |-> [baseUrl |-> baseUrl, authToken |-> authToken]]

\* Constructed that throws where the constructor only warns about HTTP
Constructed_HttpFatal(baseUrl, authToken) ==
    IF Falsy(baseUrl) \/ baseUrl \notin HttpsUrls
    THEN [NewSession EXCEPT !.state = "failed",
                            !.given = [baseUrl |-> baseUrl, authToken |-> authToken]]
    ELSE [state |-> "ready", baseUrl |-> ToStr(baseUrl),
          headers |-> Headers(authToken),
          warnings |-> {w \in {"no token"} : Falsy(authToken)},
          given |-> [baseUrl |-> baseUrl, authToken |-> authToken]]

\* new SS12000Client(baseUrl, authToken): throws, or warns and sets
\* this.baseUrl and this.headers
Constructed(baseUrl, authToken) ==
    IF Falsy(baseUrl)
    THEN [NewSession EXCEPT !.state = "failed",
                            !.given = [baseUrl |-> baseUrl, authToken |-> authToken]]
    ELSE [state |-> "ready", baseUrl |-> ToStr(baseUrl),
          headers |-> Headers(authToken),
          warnings |-> {w \in {"not https", "no token"} :
                           \/ w = "not https" /\ baseUrl \notin HttpsUrls
                           \/ w = "no token" /\ Falsy(authToken)},
          given |-> [baseUrl |-> baseUrl, authToken |-> authToken]]

Construct(Urls, Tokens) ==
    /\ session.state = "new"
    /\ \E baseUrl \in Urls, authToken \in Tokens : session' = Constructed(baseUrl, authToken)
    /\ UNCHANGED <<variant, calls>>

\* Started that reuses the request of a call in flight (one fetch options
\* object shared by all calls) instead of building its own
Started_SharedRequest(m, args) ==
    LET b == Build(m, args)
        busy == {d \in DOMAIN calls : calls[d].pc = "fetching"}
    IN IF b.threw
       THEN [IdleCall EXCEPT !.pc = "settled", !.name = m.name, !.args = args,
                             !.settled = "rejected", !.error = b.error]
       ELSE [IdleCall EXCEPT !.pc = "fetching", !.name = m.name, !.args = args,
                             !.request = IF busy = {} THEN b.request
                                         ELSE calls[CHOOSE d \in busy : TRUE].request,
                             !.fetches = 1]

\* client.<name>(...args), run to its first await
Started(m, args) ==
    LET b == Build(m, args)
    IN IF b.threw
       THEN [IdleCall EXCEPT !.pc = "settled", !.name = m.name, !.args = args,
                             !.settled = "rejected", !.error = b.error]
       ELSE [IdleCall EXCEPT !.pc = "fetching", !.name = m.name, !.args = args,
                             !.request = b.request, !.fetches = 1]

\* Invoke that sets a per-request header on this.headers
Invoke_SetsHeader(c, Inputs) ==
    /\ session.state = "ready"
    /\ calls[c].pc = "idle"
    /\ \E i \in DOMAIN Methods : \E args \in Inputs[i] :
         /\ calls' = [calls EXCEPT ![c] = Started(Methods[i], args)]
         /\ session' = [session EXCEPT !.headers =
                           Append(SelectSeq(@, LAMBDA h : h[1] # "X-Method"),
                                  <<"X-Method", Methods[i].method>>)]
    /\ UNCHANGED variant

Invoke(c, Inputs) ==
    /\ session.state = "ready"
    /\ calls[c].pc = "idle"
    /\ \E i \in DOMAIN Methods : \E args \in Inputs[i] :
         calls' = [calls EXCEPT ![c] = Started(Methods[i], args)]
    /\ UNCHANGED <<variant, session>>

\* Received with the `!response.ok` test of _delete left out
Received_DeleteIgnoresStatus(call, response) ==
    IF call.request.method = "DELETE"
    THEN [call EXCEPT !.response = response, !.pc = "settled", !.settled = "fulfilled"]
    ELSE IF ~Ok(response)
         THEN [call EXCEPT !.response = response, !.pc = "readingErrorBody"]
         ELSE [call EXCEPT !.response = response, !.pc = "readingBody"]

\* Received whose DELETE reads the body of a 2xx answer other than 204, as
\* _get does
Received_DeleteReadsBody(call, response) ==
    IF call.request.method = "DELETE" /\ response.status = 204
    THEN [call EXCEPT !.response = response, !.pc = "settled", !.settled = "fulfilled"]
    ELSE IF ~Ok(response)
         THEN [call EXCEPT !.response = response, !.pc = "readingErrorBody"]
         ELSE [call EXCEPT !.response = response, !.pc = "readingBody"]

\* `await fetch(...)` resolves with a response; the lines after it run up to
\* the next await
Received(call, response) ==
    IF call.request.method = "DELETE"
    THEN IF response.status = 204
         THEN [call EXCEPT !.response = response, !.pc = "settled", !.settled = "fulfilled"]
         ELSE IF ~Ok(response)
              THEN [call EXCEPT !.response = response, !.pc = "readingErrorBody"]
              ELSE [call EXCEPT !.response = response, !.pc = "settled", !.settled = "fulfilled"]
    ELSE IF ~Ok(response)
         THEN [call EXCEPT !.response = response, !.pc = "readingErrorBody"]
         ELSE [call EXCEPT !.response = response, !.pc = "readingBody"]

FetchResolves(c, Answers) ==
    /\ calls[c].pc = "fetching"
    /\ \E response \in Answers : calls' = [calls EXCEPT ![c] = Received(calls[c], response)]
    /\ UNCHANGED <<variant, session>>

\* FetchRejects whose catch block logs the error and does not rethrow it
FetchRejects_Swallowed(c) ==
    /\ calls[c].pc = "fetching"
    /\ calls' = [calls EXCEPT ![c] =
         [@ EXCEPT !.pc = "settled", !.settled = "fulfilled", !.logged = TRUE]]
    /\ UNCHANGED <<variant, session>>

\* `await fetch(...)` rejects: the catch block logs and rethrows
FetchRejects(c) ==
    /\ calls[c].pc = "fetching"
    /\ calls' = [calls EXCEPT ![c] =
         [@ EXCEPT !.pc = "settled", !.settled = "rejected", !.logged = TRUE,
                   !.error = Err("FetchError", <<"request failed">>)]]
    /\ UNCHANGED <<variant, session>>

\* ErrorBody that never reads the response body
ErrorBody_AlwaysFallback(response) ==
    Obj(<<<<"message", Str(response.statusText)>>>>)

\* ErrorBody whose fallback carries the status code instead of the status text
ErrorBody_StatusAsMessage(response) ==
    LET p == JSONparse(response.body)
    IN IF p.ok THEN p.v ELSE Obj(<<<<"message", Str(ToString(response.status))>>>>)

\* await response.json().catch(() => ({ message: response.statusText }))
ErrorBody(response) ==
    LET p == JSONparse(response.body)
    IN IF p.ok THEN p.v ELSE Obj(<<<<"message", Str(response.statusText)>>>>)

\* `API call failed: ${status} ${statusText} - ${JSON.stringify(errorBody)}`
ApiError(response, errorBody) ==
    Err("Error", <<"API call failed: ", ToString(response.status), " ",
                   response.statusText, " - ", JSONstringify(errorBody).s>>)

\* ErrorBodyRead that sends the request once more after a 5xx answer
ErrorBodyRead_Retries(c) ==
    /\ calls[c].pc = "readingErrorBody"
    /\ calls' = [calls EXCEPT ![c] =
         IF calls[c].response.status >= 500 /\ calls[c].fetches < 2
         THEN [@ EXCEPT !.pc = "fetching", !.fetches = @ + 1, !.response = NoResponse]
         ELSE [@ EXCEPT !.pc = "settled", !.settled = "rejected", !.logged = TRUE,
                        !.error = ApiError(calls[c].response, ErrorBody(calls[c].response))]]
    /\ UNCHANGED <<variant, session>>

\* the error body has been read: throw, log in the catch block, rethrow
ErrorBodyRead(c) ==
    /\ calls[c].pc = "readingErrorBody"
    /\ calls' = [calls EXCEPT ![c] =
         [@ EXCEPT !.pc = "settled", !.settled = "rejected", !.logged = TRUE,
                   !.error = ApiError(calls[c].response, ErrorBody(calls[c].response))]]
    /\ UNCHANGED <<variant, session>>

\* ParsedBody that hands the raw text over along with the parse error
ParsedBody_PartialValue(response) ==
    LET p == JSONparse(response.body)
    IN IF p.ok
       THEN [settled |-> "fulfilled", value |-> p.v, error |-> NoError]
       ELSE [settled |-> "rejected", value |-> Str(response.body),
             error |-> Err("SyntaxError", <<"invalid json response body">>)]

\* `return response.json()`: the promise is returned without await, so its
\* rejection passes by the catch block
ParsedBody(response) ==
    LET p == JSONparse(response.body)
    IN IF p.ok
       THEN [settled |-> "fulfilled", value |-> p.v, error |-> NoError]
       ELSE [settled |-> "rejected", value |-> Undefined,
             error |-> Err("SyntaxError", <<"invalid json response body">>)]

BodyRead(c) ==
    /\ calls[c].pc = "readingBody"
    /\ LET r == ParsedBody(calls[c].response)
       IN calls' = [calls EXCEPT ![c] =
            [@ EXCEPT !.pc = "settled", !.settled = r.settled, !.value = r.value,
                      !.error = r.error]]
    /\ UNCHANGED <<variant, session>>

\* the caller has taken the outcome
Return(c) ==
    /\ calls[c].pc = "settled"
    /\ calls' = [calls EXCEPT ![c] = IdleCall]
    /\ UNCHANGED <<variant, session>>

(***************************************************************************)
(* Callers' inputs                                                         *)
(***************************************************************************)
BaseUrls ==
    {Undefined, Null, Str(""), Str("https://api.example.org/v2.0"),
     Str("http://api.example.org/v2.0")}

AuthTokens == {Undefined, Str(""), Str("tok")}

SeqsUpTo(S, n) == UNION {[1..k -> S] : k \in 0..n}

\* values a caller stores in a filter field
FilterValues ==
    {Undefined, Null, Str("Anna"), Num(5), Bool(TRUE), Bool(FALSE)}
    \cup {Arr(a) : a \in SeqsUpTo({Str("Anna"), Str("Bo")}, MaxArr)}

ExpandValues ==
    {Undefined} \cup {Arr(a) : a \in SeqsUpTo({Str("duties"), Str("responsibleFor")}, MaxArr)}

FlagValues == {Undefined, Null, Bool(TRUE), Bool(FALSE)}

Ids == {Str("x1"), Str(""), Undefined}

LookupBodies ==
    { Obj(<<<<"ids", Arr(<<Str("p1"), Str("p2")>>)>>>>),
      Obj(<<<<"ids", Arr(<<Str("p1")>>)>>, <<"civicNos", Arr(<<Str("c1")>>)>>>>) }

WriteBodies ==
    { Obj(<<<<"name", Str("hook")>>, <<"expires", Str("2025-12-31T23:59:59Z")>>>>),
      Undefined, Null, Str("raw") }

\* o with v stored at a nested path, objects created on the way
RECURSIVE SetPath(_, _, _)
SetPath(o, path, v) ==
    IF Len(path) = 1 THEN Put(o, path[1], v)
    ELSE LET child == Get(o, Head(path))
         IN Put(o, Head(path),
                SetPath(IF child.t = "object" THEN child ELSE EmptyObj, Tail(path), v))

\* o with an (empty) object at every proper prefix of every path of a mapping
RECURSIVE EnsurePrefix(_, _)
EnsurePrefix(o, path) ==
    IF Len(path) <= 1 THEN o
    ELSE LET child == Get(o, Head(path))
         IN Put(o, Head(path),
                EnsurePrefix(IF child.t = "object" THEN child ELSE EmptyObj, Tail(path)))

RECURSIVE Skeleton(_, _)
Skeleton(map, o) ==
    IF map = <<>> THEN o ELSE Skeleton(Tail(map), EnsurePrefix(o, Head(map)[2]))

\* the mappings under which the two files know a method name
MapsNamed(n) ==
    {Methods_flat[i].map : i \in {j \in 1..Len(Methods_flat) : Methods_flat[j].name = n}}
    \cup {Methods_nested[i].map : i \in {j \in 1..Len(Methods_nested) : Methods_nested[j].name = n}}

\* the caller-facing spellings of a method's filters in either file, and one
\* field no file knows
CallerPaths(m) ==
    UNION {{mp[i][2] : i \in 1..Len(mp)} : mp \in MapsNamed(m.name)} \cup {<<"bogus">>}

BaseParams ==
    { EmptyObj,
      Obj(<<<<"limit", Num(5)>>>>),
      Obj(<<<<"limit", Num(10)>>, <<"expandReferenceNames", Bool(TRUE)>>>>) }

StartParams(m) ==
    BaseParams \cup UNION {{Skeleton(mp, b) : b \in BaseParams} : mp \in MapsNamed(m.name)}

ListParams(m) ==
    {Undefined} \cup StartParams(m)
    \cup {SetPath(s, p, v) : s \in StartParams(m), p \in CallerPaths(m), v \in FilterValues}

ArgsOf(P, I, B, E, F) ==
    [params : P, id : I, body : B, expand : E, expandReferenceNames : F]

Flag(m, f, S) == IF \E i \in 1..Len(m.flags) : m.flags[i] = f THEN S ELSE {Undefined}

\* arguments that exercise the parameter mapping
MappingArgs(m) ==
    CASE m.kind = "list" -> ArgsOf(ListParams(m), {Undefined}, {Undefined}, {Undefined}, {Undefined})
      [] m.kind = "raw" -> ArgsOf(ListParams(m), {Undefined}, {Undefined}, {Undefined}, {Undefined})
      [] m.kind = "byId" ->
            ArgsOf({Undefined}, {Str("x1")}, {Undefined},
                   Flag(m, "expand", ExpandValues), Flag(m, "expandReferenceNames", FlagValues))
      [] m.kind = "lookup" ->
            ArgsOf({Undefined}, {Undefined}, LookupBodies,
                   Flag(m, "expand", ExpandValues), Flag(m, "expandReferenceNames", FlagValues))
      [] m.kind \in {"post", "postInline"} ->
            ArgsOf({Undefined}, {Undefined}, WriteBodies, {Undefined}, {Undefined})
      [] m.kind = "delete" -> ArgsOf({Undefined}, {Str("x1")}, {Undefined}, {Undefined}, {Undefined})
      [] m.kind = "patch" -> ArgsOf({Undefined}, {Str("x1")}, WriteBodies, {Undefined}, {Undefined})

\* a few arguments per method, for the dispatch of its request
DispatchArgs(m) ==
    CASE m.kind \in {"list", "raw"} ->
            ArgsOf({Undefined, Obj(<<<<"limit", Num(5)>>>>)}
                       \cup {Skeleton(m.map, Obj(<<<<"limit", Num(5)>>>>))},
                   {Undefined}, {Undefined}, {Undefined}, {Undefined})
      [] m.kind = "byId" ->
            ArgsOf({Undefined}, Ids, {Undefined},
                   Flag(m, "expand", {Undefined, Arr(<<Str("duties")>>)}),
                   Flag(m, "expandReferenceNames", {Undefined, Bool(TRUE)}))
      [] m.kind = "lookup" ->
            ArgsOf({Undefined}, {Undefined}, {Obj(<<<<"ids", Arr(<<Str("p1"), Str("p2")>>)>>>>)},
                   Flag(m, "expand", {Undefined, Arr(<<Str("duties")>>)}),
                   Flag(m, "expandReferenceNames", {Undefined, Bool(TRUE)}))
      [] m.kind \in {"post", "postInline"} ->
            ArgsOf({Undefined}, {Undefined}, WriteBodies, {Undefined}, {Undefined})
      [] m.kind = "delete" -> ArgsOf({Undefined}, Ids, {Undefined}, {Undefined}, {Undefined})
      [] m.kind = "patch" -> ArgsOf({Undefined}, Ids, WriteBodies, {Undefined}, {Undefined})

(***************************************************************************)
(* Specifications                                                          *)
(***************************************************************************)
Variants == {"flat", "nested"}

Calls == {1}

\* Spec: a client from its construction on, every method with a few
\* arguments, every response
Init ==
    /\ variant \in Variants
    /\ session = NewSession
    /\ calls = [c \in Calls |-> IdleCall]

Next ==
    \/ Construct(BaseUrls, AuthTokens)
    \/ \E c \in DOMAIN calls : Invoke(c, [i \in DOMAIN Methods |-> DispatchArgs(Methods[i])])
    \/ \E c \in DOMAIN calls : FetchResolves(c, Responses)
    \/ \E c \in DOMAIN calls : FetchRejects(c)
    \/ \E c \in DOMAIN calls : ErrorBodyRead(c)
    \/ \E c \in DOMAIN calls : BodyRead(c)
    \/ \E c \in DOMAIN calls : Return(c)

Spec == Init /\ [][Next]_vars

\* LiveSpec: Spec, where a response body that has arrived is read to its end:
\* response.json() settles, and the code after the await runs
LiveSpec ==
    /\ Spec
    /\ \A c \in Calls : WF_vars(ErrorBodyRead(c)) /\ WF_vars(BodyRead(c))

\* ConcSpec: a constructed client shared by MaxCalls callers, whose calls
\* interleave freely; one method of each kind, a few answers
ConcCalls == 1..MaxCalls

ConcMethods ==
    {"getOrganisations", "getOrganisationById", "lookupPersons",
     "deleteSubscription", "updateSubscription"}

ConcArgs(m) ==
    IF m.name \notin ConcMethods THEN {}
    ELSE CASE m.kind = "list" ->
                ArgsOf({Obj(<<<<"limit", Num(5)>>>>),
                        Skeleton(m.map, Obj(<<<<"limit", Num(5)>>>>))},
                       {Undefined}, {Undefined}, {Undefined}, {Undefined})
           [] m.kind = "byId" ->
                ArgsOf({Undefined}, {Str("x1")}, {Undefined}, {Undefined}, {Bool(TRUE)})
           [] m.kind = "lookup" ->
                ArgsOf({Undefined}, {Undefined},
                       {Obj(<<<<"ids", Arr(<<Str("p1"), Str("p2")>>)>>>>)},
                       {Arr(<<Str("duties")>>)}, {Bool(TRUE)})
           [] m.kind = "delete" ->
                ArgsOf({Undefined}, {Str("x1")}, {Undefined}, {Undefined}, {Undefined})
           [] m.kind = "patch" ->
                ArgsOf({Undefined}, {Str("x1")},
                       {Obj(<<<<"expires", Str("2025-12-31T23:59:59Z")>>>>)},
                       {Undefined}, {Undefined})

ConcResponses ==
    { [status |-> 200, statusText |-> "OK", body |-> "{\"data\":[]}"],
      [status |-> 204, statusText |-> "No Content", body |-> ""],
      [status |-> 404, statusText |-> "Not Found", body |-> "{\"error\":\"not_found\"}"],
      [status |-> 500, statusText |-> "Internal Server Error",
       body |-> "<html>Bad Gateway</html>"] }

ConcInit ==
    /\ variant \in Variants
    /\ session = Constructed(Str("https://api.example.org/v2.0"), Str("tok"))
    /\ calls = [c \in ConcCalls |-> IdleCall]

ConcNext ==
    \/ \E c \in DOMAIN calls : Invoke(c, [i \in DOMAIN Methods |-> ConcArgs(Methods[i])])
    \/ \E c \in DOMAIN calls : FetchResolves(c, ConcResponses)
    \/ \E c \in DOMAIN calls : FetchRejects(c)
    \/ \E c \in DOMAIN calls : ErrorBodyRead(c)
    \/ \E c \in DOMAIN calls : BodyRead(c)
    \/ \E c \in DOMAIN calls : Return(c)

ConcSpec == ConcInit /\ [][ConcNext]_vars

\* MapSpec: a constructed client, every method with the arguments that
\* exercise its parameter mapping, one successful response
MapInit ==
    /\ variant \in Variants
    /\ session = Constructed(Str("https://api.example.org/v2.0"), Str("tok"))
    /\ calls = [c \in Calls |-> IdleCall]

MapResponse == [status |-> 200, statusText |-> "OK", body |-> "{\"data\":[]}"]

MapNext ==
    \/ \E c \in DOMAIN calls : Invoke(c, [i \in DOMAIN Methods |-> MappingArgs(Methods[i])])
    \/ \E c \in DOMAIN calls : FetchResolves(c, {MapResponse})
    \/ \E c \in DOMAIN calls : BodyRead(c)
    \/ \E c \in DOMAIN calls : Return(c)

MapSpec == MapInit /\ [][MapNext]_vars

TypeOK ==
    /\ variant \in Variants
    /\ session.state \in {"new", "ready", "failed"}
    /\ \A c \in DOMAIN calls :
         /\ calls[c].pc \in {"idle", "fetching", "readingErrorBody", "readingBody", "settled"}
         /\ calls[c].settled \in {"pending", "fulfilled", "rejected"}
         /\ calls[c].fetches \in {0, 1}

(***************************************************************************)
(* Properties                                                              *)
(***************************************************************************)
\* the wire keys of the mappedParams literals that contain a dot
DottedKeys ==
    { "endDate.onOrAfter",
      "endDate.onOrBefore",
      "endSchoolYear.onOrAfter",
      "endSchoolYear.onOrBefore",
      "endTime.onOrAfter",
      "endTime.onOrBefore",
      "identifier.context",
      "identifier.value",
      "meta.created.after",
      "meta.created.before",
      "meta.modified.after",
      "meta.modified.before",
      "numberOfWeeks.onOrAfter",
      "numberOfWeeks.onOrBefore",
      "points.onOrAfter",
      "points.onOrBefore",
      "registeredDate.onOrAfter",
      "registeredDate.onOrBefore",
      "relationship.endDate.onOrAfter",
      "relationship.endDate.onOrBefore",
      "relationship.entity.type",
      "relationship.organisation",
      "relationship.startDate.onOrAfter",
      "relationship.startDate.onOrBefore",
      "reportedTimestamp.onOrAfter",
      "reportedTimestamp.onOrBefore",
      "startDate.onOrAfter",
      "startDate.onOrBefore",
      "startSchoolYear.onOrAfter",
      "startSchoolYear.onOrBefore",
      "startTime.onOrAfter",
      "startTime.onOrBefore",
      "time.onOrAfter",
      "time.onOrBefore",
      "timestamp.onOrAfter",
      "timestamp.onOrBefore",
      "year.onOrAfter",
      "year.onOrBefore" }

Method(c) == MethodNamed(calls[c].name)

\* the call has handed a request to fetch
Requested(c) == calls[c].fetches = 1

Params(c) == Default(calls[c].args.params, EmptyObj)

Keys(pairs) == {pairs[i][1] : i \in 1..Len(pairs)}

Occurrences(pairs, k) == SelectSeq(pairs, LAMBDA p : p[1] = k)

Limit5 == Obj(<<<<"limit", Num(5)>>>>)

\* C1: getOrganisations({limit: 5}) hands fetch one GET to
\* {baseUrl}/organisations whose query string is limit=5, no other key.
C1_GetOrganisationsLimit5 ==
    \A c \in DOMAIN calls :
        (calls[c].name = "getOrganisations" /\ calls[c].args.params = Limit5)
        => /\ Requested(c)
           /\ calls[c].request.method = "GET"
           /\ calls[c].request.origin = session.baseUrl
           /\ calls[c].request.pathname = "/organisations"
           /\ Serialize(calls[c].request.searchParams) = "limit=5"

\* the query keys a list call must not carry: those whose caller field is
\* unset, undefined or null
Unset(c) ==
    IF Method(c).kind = "list"
    THEN {Method(c).map[i][1] : i \in {j \in 1..Len(Method(c).map) :
              IsNullish(ReadPath(Params(c), Method(c).map[j][2]).v)}}
    ELSE {Params(c).e[i][1] : i \in {j \in 1..Len(Params(c).e) :
              IsNullish(Params(c).e[j][2])}}

\* C2: in the request of a list method no query key belongs to a caller
\* parameter that is unset, undefined or null, and no key has an empty value.
C2_AbsenceInAbsenceOut ==
    \A c \in DOMAIN calls :
        (Requested(c) /\ Method(c).kind \in {"list", "raw"})
        => /\ Unset(c) \cap Keys(calls[c].request.searchParams) = {}
           /\ \A i \in 1..Len(calls[c].request.searchParams) :
                calls[c].request.searchParams[i][2] \notin {"", "undefined", "null"}

C2_Witness ==
    \E c \in DOMAIN calls :
        /\ Requested(c) /\ Method(c).kind = "list"
        /\ \E i \in 1..Len(Method(c).map) :
             /\ ReadPath(Params(c), Method(c).map[i][2]).v = Null
             /\ Method(c).map[i][1] \notin Keys(calls[c].request.searchParams)
        /\ Keys(calls[c].request.searchParams) = {"limit"}

\* the array-valued parameters of a call, as <<query key, array>>
ArrayParams(c) ==
    LET m == Method(c)
    IN CASE m.kind = "list" ->
              {<<m.map[i][1], ReadPath(Params(c), m.map[i][2]).v>> :
                  i \in {j \in 1..Len(m.map) : ReadPath(Params(c), m.map[j][2]).v.t = "array"}}
         [] m.kind = "raw" ->
              {<<Params(c).e[i][1], Params(c).e[i][2]>> :
                  i \in {j \in 1..Len(Params(c).e) : Params(c).e[j][2].t = "array"}}
         [] m.kind \in {"byId", "lookup"} ->
              IF calls[c].args.expand.t = "array" /\ m.flags # <<>> /\ m.flags[1] = "expand"
              THEN {<<"expand", calls[c].args.expand>>}
              ELSE {}
         [] OTHER -> {}

\* C3: an array of N items is sent as N occurrences of its key, one per item,
\* in the caller's order.
C3_RepeatedKeys ==
    \A c \in DOMAIN calls :
        Requested(c) =>
            \A kv \in ArrayParams(c) :
                Occurrences(calls[c].request.searchParams, kv[1])
                    = [i \in 1..Len(kv[2].a) |-> <<kv[1], kv[2].a[i].s>>]

C3_Witness ==
    \E c \in DOMAIN calls :
        /\ Requested(c)
        /\ \E kv \in ArrayParams(c) :
             /\ kv[2] = Arr(<<Str("Bo"), Str("Anna")>>)
             /\ Occurrences(calls[c].request.searchParams, kv[1])
                  = <<<<kv[1], "Bo">>, <<kv[1], "Anna">>>>

\* C4: a value the caller supplies for a dotted filter (anything but
\* undefined, null or an empty array), under the spelling of the loaded file,
\* always reaches the request under the dotted wire key.
C4_DottedKeyProduced ==
    \A c \in DOMAIN calls :
        (calls[c].pc # "idle" /\ Method(c).kind = "list")
        => \A i \in 1..Len(Method(c).map) :
              LET r == ReadPath(Params(c), Method(c).map[i][2])
              IN (/\ Method(c).map[i][1] \in DottedKeys
                  /\ ~r.threw /\ ~IsNullish(r.v) /\ r.v # Arr(<<>>))
                 => /\ Requested(c)
                    /\ Method(c).map[i][1] \in Keys(calls[c].request.searchParams)

LookupPersonsBody == Obj(<<<<"ids", Arr(<<Str("p1"), Str("p2")>>)>>>>)

\* C5: a lookup is one POST to its /lookup path; the body argument is the
\* JSON body and no part of the query, the flags are the query and no part of
\* the body.  lookupPersons({ids: ['p1','p2']}, ['duties'], true) sends the
\* body {"ids":["p1","p2"]} and the query expand=duties&expandReferenceNames=true.
C5_LookupSplit ==
    \A c \in DOMAIN calls :
        (calls[c].pc # "idle" /\ Method(c).kind = "lookup")
        => /\ Requested(c)
           /\ calls[c].request.method = "POST"
           /\ calls[c].request.pathname = Method(c).path
           /\ calls[c].request.body = Str(JsonText(calls[c].args.body))
           /\ Keys(calls[c].request.searchParams) \subseteq {"expand", "expandReferenceNames"}
           /\ Keys(calls[c].request.searchParams) \cap Keys(calls[c].args.body.e) = {}
           /\ (/\ calls[c].name = "lookupPersons"
               /\ calls[c].args.body = LookupPersonsBody
               /\ calls[c].args.expand = Arr(<<Str("duties")>>)
               /\ calls[c].args.expandReferenceNames = Bool(TRUE))
              => /\ calls[c].request.pathname = "/persons/lookup"
                 /\ calls[c].request.body = Str("{\"ids\":[\"p1\",\"p2\"]}")
                 /\ Serialize(calls[c].request.searchParams)
                      = "expand=duties&expandReferenceNames=true"

C5_Witness ==
    \E c \in DOMAIN calls :
        /\ calls[c].pc = "fetching"
        /\ calls[c].name = "lookupPersons"
        /\ calls[c].args.body = LookupPersonsBody
        /\ calls[c].args.expand = Arr(<<Str("duties")>>)
        /\ calls[c].args.expandReferenceNames = Bool(TRUE)
        /\ calls[c].request.method = "POST"

\* C6: getPersons({nameContains: ['Anna'], limit: 10, expandReferenceNames: true})
\* hands fetch a GET to /persons with exactly the query pairs
\* nameContains=Anna, expandReferenceNames=true and limit=10.
C6_GetPersonsScenario ==
    \A c \in DOMAIN calls :
        (/\ calls[c].name = "getPersons"
         /\ Len(Params(c).e) = 3
         /\ Get(Params(c), "nameContains") = Arr(<<Str("Anna")>>)
         /\ Get(Params(c), "limit") = Num(10)
         /\ Get(Params(c), "expandReferenceNames") = Bool(TRUE))
        => /\ Requested(c)
           /\ calls[c].request.method = "GET"
           /\ calls[c].request.pathname = "/persons"
           /\ Len(calls[c].request.searchParams) = 3
           /\ {calls[c].request.searchParams[i] : i \in 1..3}
                = {<<"nameContains", "Anna">>, <<"expandReferenceNames", "true">>,
                   <<"limit", "10">>}

\* the call has received a response and has settled
Answered(c) == calls[c].pc = "settled" /\ calls[c].response # NoResponse

NotFoundBody == Obj(<<<<"error", Str("not_found")>>>>)

C9_ErrorPayloadFallback ==
    \A c \in DOMAIN calls :
        /\ (calls[c].pc = "fetching" => calls[c].settled = "pending")
        /\ (calls[c].pc = "readingErrorBody"
              => ~Ok(calls[c].response) /\ calls[c].settled = "pending")
        /\ (Answered(c) /\ ~Ok(calls[c].response))
              => LET parsed == JSONparse(calls[c].response.body)
                     fallback == JsonText(Obj(<<<<"message", Str(calls[c].response.statusText)>>>>))
                 IN /\ calls[c].settled = "rejected"
                    /\ calls[c].error.name = "Error"
                    /\ parsed.ok => calls[c].error.message[6] = JsonText(parsed.v)
                    /\ (calls[c].error.message[6] = fallback) <=> ~parsed.ok

C9_Witness ==
    \E c \in DOMAIN calls :
        /\ Answered(c)
        /\ calls[c].request.method = "POST"
        /\ calls[c].response.status = 500
        /\ ~JSONparse(calls[c].response.body).ok
        /\ calls[c].settled = "rejected"
        /\ calls[c].error.message[6] = "{\"message\":\"Internal Server Error\"}"

\* C10: a GET, POST or PATCH answered 204, or 2xx with an empty body, fulfils
\* with an undefined result.
C10_EmptyBodyFulfils ==
    \A c \in DOMAIN calls :
        (/\ Answered(c)
         /\ calls[c].request.method \in {"GET", "POST", "PATCH"}
         /\ Ok(calls[c].response)
         /\ calls[c].response.body = "")
        => calls[c].settled = "fulfilled" /\ calls[c].value = Undefined

\* C11: a constructor call with an undefined, null or empty base URL throws:
\* no client exists (no baseUrl, no headers) and no call is ever started.
C11_MissingBaseUrlFatal ==
    (session.state # "new" /\ Falsy(session.given.baseUrl))
    => /\ session.state = "failed"
       /\ session.baseUrl = "" /\ session.headers = <<>>
       /\ \A c \in DOMAIN calls : calls[c].pc = "idle" /\ calls[c].fetches = 0

C11_Witness ==
    /\ session.state = "failed"
    /\ session.given.baseUrl = Str("")
    /\ session.given.authToken = Str("tok")

C13_SessionHeaders ==
    \A c \in DOMAIN calls :
        Requested(c)
        => calls[c].request.headers =
             <<<<"Content-Type", "application/json">>, <<"Accept", "application/json">>>>
             \o (IF Falsy(session.given.authToken) THEN <<>>
                 ELSE <<<<"Authorization", "Bearer " \o session.given.authToken.s>>>>)

C13_Witness ==
    \E c \in DOMAIN calls :
        /\ calls[c].pc = "fetching"
        /\ calls[c].request.method = "DELETE"
        /\ session.given.authToken = Str("tok")
        /\ calls[c].request.headers[3] = <<"Authorization", "Bearer tok">>

\* C14: a get-by-id, delete or update call whose id is undefined or empty
\* fails before any request is made.
C14_IdRequired ==
    \A c \in DOMAIN calls :
        (/\ calls[c].pc # "idle"
         /\ Method(c).withId
         /\ calls[c].args.id \in {Undefined, Str("")})
        => /\ ~Requested(c)
           /\ calls[c].settled = "rejected"

\* C15: when fetch rejects (no response at all) the call, whatever its verb,
\* is rejected with the transport's error, which names no HTTP status; it is
\* logged and never fulfilled.
C15_TransportFailureRejects ==
    \A c \in DOMAIN calls :
        (calls[c].pc = "settled" /\ Requested(c) /\ calls[c].response = NoResponse)
        => /\ calls[c].settled = "rejected"
           /\ calls[c].value = Undefined
           /\ calls[c].error = Err("FetchError", <<"request failed">>)
           /\ calls[c].error.message[1] # "API call failed: "
           /\ calls[c].logged

C15_Witness ==
    \E c \in DOMAIN calls :
        /\ calls[c].pc = "settled"
        /\ calls[c].request.method = "POST"
        /\ calls[c].response = NoResponse
        /\ calls[c].settled = "rejected"
        /\ calls[c].error.name = "FetchError"

\* C16: no step of a call that is under way calls fetch again, whatever the
\* answer was, so an invocation makes at most one request; and the outcome a
\* call has settled with stays as it is until the caller takes it.
C16_NoRetries ==
    [][\A c \in DOMAIN calls :
          /\ calls'[c].fetches <= 1
          /\ calls[c].pc # "idle" => calls'[c].fetches <= calls[c].fetches
          /\ (calls[c].pc = "settled" /\ calls'[c].pc = "settled")
                => calls'[c] = calls[c]]_vars

C16_Witness ==
    \E c \in DOMAIN calls :
        /\ calls[c].pc = "settled" /\ calls[c].settled = "rejected"
        /\ calls[c].response.status = 500
        /\ calls[c].name = "getOrganisations"
        /\ calls[c].fetches = 1

\* C17: a call is pending until it settles, and settles either fulfilled (a
\* value or undefined, no error) or rejected (an error, no value); once fetch
\* has answered or failed, the call does settle.
C17_OneOutcome ==
    /\ [](\A c \in Calls :
            /\ calls[c].pc # "settled" => calls[c].settled = "pending"
            /\ calls[c].pc = "settled"
                 => /\ calls[c].settled \in {"fulfilled", "rejected"}
                    /\ calls[c].settled = "fulfilled" => calls[c].error = NoError
                    /\ calls[c].settled = "rejected"
                         => calls[c].error # NoError /\ calls[c].value = Undefined)
    /\ \A c \in Calls :
         (calls[c].pc \in {"readingErrorBody", "readingBody"})
         ~> (calls[c].pc = "settled" /\ calls[c].settled \in {"fulfilled", "rejected"})

C17_Witness ==
    \E c \in DOMAIN calls :
        /\ calls[c].pc = "settled" /\ calls[c].settled = "fulfilled"
        /\ calls[c].request.method = "PATCH"
        /\ calls[c].response.status = 200
        /\ calls[c].value = Obj(<<<<"data", Arr(<<>>)>>>>)

\* C18: with several calls in flight on one client, in any interleaving, the
\* request of each call is the one its own method builds from its own
\* arguments and the session, and the outcome of each call is the one that
\* follows from the response to its own request.
C18_CallsIndependent ==
    \A c \in DOMAIN calls :
        calls[c].pc # "idle"
        => LET b == Build(Method(c), calls[c].args)
               r == calls[c].response
           IN /\ b.threw => ~Requested(c) /\ calls[c].error = b.error
              /\ ~b.threw => Requested(c) /\ calls[c].request = b.request
              /\ calls[c].request.origin \in {"", session.baseUrl}
              /\ calls[c].request.headers \in {<<>>, session.headers}
              /\ Answered(c)
                   => /\ calls[c].settled = "fulfilled"
                           => /\ Ok(r)
                              /\ calls[c].value \in {Undefined, JSONparse(r.body).v}
                      /\ (calls[c].settled = "rejected" /\ ~Ok(r))
                           => calls[c].error = ApiError(r, ErrorBody(r))
                      /\ (calls[c].settled = "rejected" /\ Ok(r))
                           => calls[c].error.name = "SyntaxError"

C18_Witness ==
    \E c, d \in DOMAIN calls :
        /\ calls[c].name = "getOrganisationById" /\ calls[d].name = "lookupPersons"
        /\ Answered(c) /\ calls[c].response.status = 404 /\ calls[c].settled = "rejected"
        /\ Answered(d) /\ calls[d].response.status = 200 /\ calls[d].settled = "fulfilled"
        /\ calls[c].request.method = "GET" /\ calls[d].request.method = "POST"

\* C19: once constructed, the client keeps the baseUrl and the headers the
\* constructor set from its arguments: no step of any call, successful or
\* failed, changes them.
C19_SessionImmutable ==
    /\ [](session.state = "ready"
            => /\ session.baseUrl = session.given.baseUrl.s
               /\ session.headers = Headers(session.given.authToken))
    /\ [][session.state # "new"
            => /\ session'.baseUrl = session.baseUrl
               /\ session'.headers = session.headers]_vars

C19_Witness ==
    /\ session.state = "ready"
    /\ session.baseUrl = "https://api.example.org/v2.0"
    /\ session.headers = Headers(Str("tok"))
    /\ \E c \in DOMAIN calls :
         /\ calls[c].name = "createSubscription"
         /\ calls[c].pc = "settled" /\ calls[c].settled = "rejected"

Wire(v) ==
    IF IsNullish(v) THEN <<>>
    ELSE IF v.t = "array" THEN [i \in 1..Len(v.a) |-> ToStr(v.a[i])]
    ELSE <<ToStr(v)>>

Values(pairs, k) == [i \in 1..Len(Occurrences(pairs, k)) |-> Occurrences(pairs, k)[i][2]]

DeletedEntitiesFields == {"after", "entities", "limit", "pageToken"}

\* C21: getDeletedEntities issues a GET to /deletedEntities whose query
\* carries every supplied field among after, entities, limit and pageToken
\* under the key of the same name (entities once per element); none of the
\* four is dropped or renamed.
C21_DeletedEntitiesFields ==
    \A c \in DOMAIN calls :
        (calls[c].name = "getDeletedEntities" /\ calls[c].pc # "idle")
        => /\ Requested(c)
           /\ calls[c].request.method = "GET"
           /\ calls[c].request.pathname = "/deletedEntities"
           /\ \A f \in DeletedEntitiesFields :
                Values(calls[c].request.searchParams, f) = Wire(Get(Params(c), f))

\* the same statement for the file that maps all four fields
C21_NestedFile ==
    variant = "nested" => C21_DeletedEntitiesFields

\* the documented verb and collection path of the write operations
DocumentedWrites ==
    [createSubscription |-> <<"POST", "/subscriptions", FALSE>>,
     updateSubscription |-> <<"PATCH", "/subscriptions", TRUE>>,
     deleteSubscription |-> <<"DELETE", "/subscriptions", TRUE>>,
     postAttendance |-> <<"POST", "/attendances", FALSE>>,
     postAttendanceEvent |-> <<"POST", "/attendanceEvents", FALSE>>,
     postAttendanceSchedule |-> <<"POST", "/attendanceSchedules", FALSE>>,
     postAbsence |-> <<"POST", "/absences", FALSE>>,
     postLog |-> <<"POST", "/log", FALSE>>,
     postStatistics |-> <<"POST", "/statistics", FALSE>>,
     deleteAttendance |-> <<"DELETE", "/attendances", TRUE>>,
     deleteAttendanceEventById |-> <<"DELETE", "/attendanceEvents", TRUE>>,
     deleteAttendanceScheduleById |-> <<"DELETE", "/attendanceSchedules", TRUE>>]

WriteAsDocumented(c) ==
    LET d == DocumentedWrites[calls[c].name]
    IN /\ calls[c].request.method = d[1]
       /\ calls[c].request.origin = session.baseUrl
       /\ calls[c].request.pathname =
            (IF d[3] THEN d[2] \o "/" \o calls[c].args.id.s ELSE d[2])

\* C22: every write operation that issues a request issues the documented
\* verb to the documented path: POST /subscriptions, PATCH and DELETE
\* /subscriptions/{id}, the ingestion POSTs to exactly /attendances,
\* /attendanceEvents, /attendanceSchedules, /absences, /log and /statistics,
\* and the three attendance deletes to /{resource}/{id}.
C22_WriteVerbAndPath ==
    \A c \in DOMAIN calls :
        (/\ calls[c].name \in DOMAIN DocumentedWrites
         /\ Requested(c)
         /\ (DocumentedWrites[calls[c].name][3] => calls[c].args.id = Str("x1")))
        => WriteAsDocumented(c)

\* the same statement without the two operations whose URL ends in a slash
C22_ExceptLogAndStatistics ==
    \A c \in DOMAIN calls :
        (/\ calls[c].name \in DOMAIN DocumentedWrites \ {"postLog", "postStatistics"}
         /\ Requested(c)
         /\ (DocumentedWrites[calls[c].name][3] => calls[c].args.id = Str("x1")))
        => WriteAsDocumented(c)

\* the caller parameter that has the name of wire key w: the key itself, and
\* for a key with dots its camelCase spelling (src/ss12000-client.js) or its
\* nested spelling (src/unnamed/part_003)
SameNamed(w) ==
    CASE w = "endDate.onOrAfter" -> IF variant = "flat" THEN <<"endDateOnOrAfter">> ELSE <<"endDate", "onOrAfter">>
       [] w = "endDate.onOrBefore" -> IF variant = "flat" THEN <<"endDateOnOrBefore">> ELSE <<"endDate", "onOrBefore">>
       [] w = "endSchoolYear.onOrAfter" -> IF variant = "flat" THEN <<"endSchoolYearOnOrAfter">> ELSE <<"endSchoolYear", "onOrAfter">>
       [] w = "endSchoolYear.onOrBefore" -> IF variant = "flat" THEN <<"endSchoolYearOnOrBefore">> ELSE <<"endSchoolYear", "onOrBefore">>
       [] w = "endTime.onOrAfter" -> IF variant = "flat" THEN <<"endTimeOnOrAfter">> ELSE <<"endTime", "onOrAfter">>
       [] w = "endTime.onOrBefore" -> IF variant = "flat" THEN <<"endTimeOnOrBefore">> ELSE <<"endTime", "onOrBefore">>
       [] w = "identifier.context" -> IF variant = "flat" THEN <<"identifierContext">> ELSE <<"identifier", "context">>
       [] w = "identifier.value" -> IF variant = "flat" THEN <<"identifierValue">> ELSE <<"identifier", "value">>
       [] w = "meta.created.after" -> IF variant = "flat" THEN <<"metaCreatedAfter">> ELSE <<"meta", "created", "after">>
       [] w = "meta.created.before" -> IF variant = "flat" THEN <<"metaCreatedBefore">> ELSE <<"meta", "created", "before">>
       [] w = "meta.modified.after" -> IF variant = "flat" THEN <<"metaModifiedAfter">> ELSE <<"meta", "modified", "after">>
       [] w = "meta.modified.before" -> IF variant = "flat" THEN <<"metaModifiedBefore">> ELSE <<"meta", "modified", "before">>
       [] w = "numberOfWeeks.onOrAfter" -> IF variant = "flat" THEN <<"numberOfWeeksOnOrAfter">> ELSE <<"numberOfWeeks", "onOrAfter">>
       [] w = "numberOfWeeks.onOrBefore" -> IF variant = "flat" THEN <<"numberOfWeeksOnOrBefore">> ELSE <<"numberOfWeeks", "onOrBefore">>
       [] w = "points.onOrAfter" -> IF variant = "flat" THEN <<"pointsOnOrAfter">> ELSE <<"points", "onOrAfter">>
       [] w = "points.onOrBefore" -> IF variant = "flat" THEN <<"pointsOnOrBefore">> ELSE <<"points", "onOrBefore">>
       [] w = "registeredDate.onOrAfter" -> IF variant = "flat" THEN <<"registeredDateOnOrAfter">> ELSE <<"registeredDate", "onOrAfter">>
       [] w = "registeredDate.onOrBefore" -> IF variant = "flat" THEN <<"registeredDateOnOrBefore">> ELSE <<"registeredDate", "onOrBefore">>
       [] w = "relationship.endDate.onOrAfter" -> IF variant = "flat" THEN <<"relationshipEndDateOnOrAfter">> ELSE <<"relationship", "endDate", "onOrAfter">>
       [] w = "relationship.endDate.onOrBefore" -> IF variant = "flat" THEN <<"relationshipEndDateOnOrBefore">> ELSE <<"relationship", "endDate", "onOrBefore">>
       [] w = "relationship.entity.type" -> IF variant = "flat" THEN <<"relationshipEntityType">> ELSE <<"relationship", "entity", "type">>
       [] w = "relationship.organisation" -> IF variant = "flat" THEN <<"relationshipOrganisation">> ELSE <<"relationship", "organisation">>
       [] w = "relationship.startDate.onOrAfter" -> IF variant = "flat" THEN <<"relationshipStartDateOnOrAfter">> ELSE <<"relationship", "startDate", "onOrAfter">>
       [] w = "relationship.startDate.onOrBefore" -> IF variant = "flat" THEN <<"relationshipStartDateOnOrBefore">> ELSE <<"relationship", "startDate", "onOrBefore">>
       [] w = "reportedTimestamp.onOrAfter" -> IF variant = "flat" THEN <<"reportedTimestampOnOrAfter">> ELSE <<"reportedTimestamp", "onOrAfter">>
       [] w = "reportedTimestamp.onOrBefore" -> IF variant = "flat" THEN <<"reportedTimestampOnOrBefore">> ELSE <<"reportedTimestamp", "onOrBefore">>
       [] w = "startDate.onOrAfter" -> IF variant = "flat" THEN <<"startDateOnOrAfter">> ELSE <<"startDate", "onOrAfter">>
       [] w = "startDate.onOrBefore" -> IF variant = "flat" THEN <<"startDateOnOrBefore">> ELSE <<"startDate", "onOrBefore">>
       [] w = "startSchoolYear.onOrAfter" -> IF variant = "flat" THEN <<"startSchoolYearOnOrAfter">> ELSE <<"startSchoolYear", "onOrAfter">>
       [] w = "startSchoolYear.onOrBefore" -> IF variant = "flat" THEN <<"startSchoolYearOnOrBefore">> ELSE <<"startSchoolYear", "onOrBefore">>
       [] w = "startTime.onOrAfter" -> IF variant = "flat" THEN <<"startTimeOnOrAfter">> ELSE <<"startTime", "onOrAfter">>
       [] w = "startTime.onOrBefore" -> IF variant = "flat" THEN <<"startTimeOnOrBefore">> ELSE <<"startTime", "onOrBefore">>
       [] w = "time.onOrAfter" -> IF variant = "flat" THEN <<"timeOnOrAfter">> ELSE <<"time", "onOrAfter">>
       [] w = "time.onOrBefore" -> IF variant = "flat" THEN <<"timeOnOrBefore">> ELSE <<"time", "onOrBefore">>
       [] w = "timestamp.onOrAfter" -> IF variant = "flat" THEN <<"timestampOnOrAfter">> ELSE <<"timestamp", "onOrAfter">>
       [] w = "timestamp.onOrBefore" -> IF variant = "flat" THEN <<"timestampOnOrBefore">> ELSE <<"timestamp", "onOrBefore">>
       [] w = "year.onOrAfter" -> IF variant = "flat" THEN <<"yearOnOrAfter">> ELSE <<"year", "onOrAfter">>
       [] w = "year.onOrBefore" -> IF variant = "flat" THEN <<"yearOnOrBefore">> ELSE <<"year", "onOrBefore">>
       [] OTHER -> <<w>>

\* C23: in the request of every list operation each wire key of the mapping
\* carries the value of the caller parameter of the same name, and of no
\* other caller field (group is sent as group, organisation as organisation,
\* endDate is not sent under endDate.onOrBefore).
C23_SameNamedKey ==
    \A c \in DOMAIN calls :
        (Requested(c) /\ Method(c).kind = "list")
        => \A i \in 1..Len(Method(c).map) :
             Values(calls[c].request.searchParams, Method(c).map[i][1])
                 = Wire(ReadPath(Params(c), SameNamed(Method(c).map[i][1])).v)

\* the same statement for the file whose mappings read the same-named field
C23_FlatFile ==
    variant = "flat" => C23_SameNamedKey

PaginationPassedThrough(c) ==
    /\ Values(calls[c].request.searchParams, "limit") = Wire(Get(Params(c), "limit"))
    /\ Values(calls[c].request.searchParams, "pageToken") = Wire(Get(Params(c), "pageToken"))

\* C24: the request of every list operation carries the caller's limit and
\* pageToken, unaltered, under the keys limit and pageToken and carries no
\* page token the caller did not supply; no call hands fetch a second
\* request, whatever the response.
C24_PaginationPassThrough ==
    \A c \in DOMAIN calls :
        /\ calls[c].fetches <= 1
        /\ (Requested(c) /\ Method(c).kind \in {"list", "raw"})
           => PaginationPassedThrough(c)

\* the same statement without the one method whose mapping has neither key
C24_ExceptDeletedEntities ==
    \A c \in DOMAIN calls :
        /\ calls[c].fetches <= 1
        /\ (Requested(c) /\ Method(c).kind \in {"list", "raw"}
              /\ ~(variant = "flat" /\ calls[c].name = "getDeletedEntities"))
           => PaginationPassedThrough(c)

\* C25: a DELETE answered with a 2xx status other than 204, with or without
\* a body, fulfils with no value, raises no error and logs nothing; a DELETE
\* that was answered rejects only on a non-2xx status.
C25_DeleteOther2xx ==
    \A c \in DOMAIN calls :
        (Answered(c) /\ calls[c].request.method = "DELETE")
        => /\ (Ok(calls[c].response) /\ calls[c].response.status # 204)
                => /\ calls[c].settled = "fulfilled"
                   /\ calls[c].value = Undefined
                   /\ calls[c].error = NoError
                   /\ ~calls[c].logged
           /\ calls[c].settled = "rejected" => ~Ok(calls[c].response)

C25_Witness ==
    \E c \in DOMAIN calls :
        /\ Answered(c)
        /\ calls[c].request.method = "DELETE"
        /\ calls[c].response.status = 200
        /\ calls[c].response.body = "{\"data\":[]}"
        /\ calls[c].settled = "fulfilled"
        /\ calls[c].value = Undefined

C25_WitnessEmptyBody ==
    \E c \in DOMAIN calls :
        /\ Answered(c)
        /\ calls[c].request.method = "DELETE"
        /\ calls[c].response.status = 201
        /\ calls[c].response.body = ""
        /\ calls[c].settled = "fulfilled"

HookText == "{\"name\":\"hook\",\"expires\":\"2025-12-31T23:59:59Z\"}"

\* C26: a GET or DELETE request has no body; the body of a POST or PATCH
\* request is JSON.stringify of the caller's body argument, and its query
\* string holds nothing but the flags of a lookup, no member of the body.
C26_BodyByVerb ==
    \A c \in DOMAIN calls :
        Requested(c)
        => /\ calls[c].request.method \in {"GET", "DELETE"}
                => calls[c].request.body = Undefined
           /\ calls[c].request.method \in {"POST", "PATCH"}
                => /\ calls[c].request.body = JSONstringify(calls[c].args.body)
                   /\ calls[c].args.body # Undefined
                        => calls[c].request.body = Str(JsonText(calls[c].args.body))
                   /\ Keys(calls[c].request.searchParams)
                        \subseteq {"expand", "expandReferenceNames"}
                   /\ \A k \in Keys(calls[c].request.searchParams) :
                        ~HasKey(calls[c].args.body, k)

C26_Witness ==
    \E c \in DOMAIN calls :
        /\ Requested(c)
        /\ calls[c].name = "createSubscription"
        /\ calls[c].request.method = "POST"
        /\ calls[c].request.body = Str(HookText)
        /\ calls[c].request.searchParams = <<>>

\* C27: in the mapping of every list operation that has handed fetch a
\* request each wire key occurs once, and in the request every wire key
\* carries the value of the caller field of its own entry: no other entry
\* overwrites or shadows it.
C27_WireKeyOnce ==
    \A c \in DOMAIN calls :
        (calls[c].pc = "fetching" /\ Method(c).kind = "list")
        => /\ Cardinality({Method(c).map[i][1] : i \in 1..Len(Method(c).map)})
                = Len(Method(c).map)
           /\ \A i \in 1..Len(Method(c).map) :
                Values(calls[c].request.searchParams, Method(c).map[i][1])
                    = Wire(ReadPath(Params(c), Method(c).map[i][2]).v)

C27_Witness ==
    \E c \in DOMAIN calls :
        /\ Requested(c)
        /\ calls[c].name = "getGrades"
        /\ calls[c].request.searchParams = <<<<"student", "Anna">>, <<"limit", "5">>>>

\* the documented wire keys of a list operation: those of its mapping, and
\* for getSubscriptions, which has no mapping, the two documented parameters
WireKeys(c) ==
    IF Method(c).kind = "list"
    THEN {Method(c).map[i][1] : i \in 1..Len(Method(c).map)}
    ELSE {"limit", "pageToken"}

\* C28: the query of a list operation, getSubscriptions included, holds only
\* keys of the operation's documented wire-key set, whatever other fields
\* the caller's parameter object contains.
C28_OnlyMappedKeys ==
    \A c \in DOMAIN calls :
        (Requested(c) /\ Method(c).kind \in {"list", "raw"})
        => Keys(calls[c].request.searchParams) \subseteq WireKeys(c)

\* the same statement for the operations that have a mapping
C28_ExceptGetSubscriptions ==
    \A c \in DOMAIN calls :
        (Requested(c) /\ Method(c).kind = "list")
        => Keys(calls[c].request.searchParams) \subseteq WireKeys(c)

HasFlag(c, f) == \E i \in 1..Len(Method(c).flags) : Method(c).flags[i] = f

\* C29: a get-by-id or lookup operation that takes the expandReferenceNames
\* flag and is called without it sends expandReferenceNames=false, once; one
\* called without expand sends no expand key.
C29_FlagDefaults ==
    \A c \in DOMAIN calls :
        (Requested(c) /\ Method(c).kind \in {"byId", "lookup"})
        => /\ (HasFlag(c, "expandReferenceNames")
                 /\ calls[c].args.expandReferenceNames = Undefined)
                => Values(calls[c].request.searchParams, "expandReferenceNames")
                       = <<"false">>
           /\ calls[c].args.expand = Undefined
                => "expand" \notin Keys(calls[c].request.searchParams)

C29_Witness ==
    \E c \in DOMAIN calls :
        /\ Requested(c)
        /\ calls[c].name = "lookupPersons"
        /\ calls[c].args.expand = Undefined
        /\ calls[c].args.expandReferenceNames = Undefined
        /\ calls[c].request.searchParams = <<<<"expandReferenceNames", "false">>>>

C29_WitnessById ==
    \E c \in DOMAIN calls :
        /\ Requested(c)
        /\ calls[c].name = "getPersonById"
        /\ calls[c].args.expand = Undefined
        /\ calls[c].args.expandReferenceNames = Undefined
        /\ calls[c].request.pathname = "/persons/x1"
        /\ calls[c].request.searchParams = <<<<"expandReferenceNames", "false">>>>

Ingestion == {"postLog", "postStatistics"}

IsObject(v) == v.t \in {"object", "array"}

\* C30: postLog and postStatistics called with a missing body or one that is
\* no object reject with an error before any request is handed to fetch, and
\* the call leaves the session as it was; called with an object they hand
\* fetch one POST that carries the object, and never a second one.
C30_IngestionBodyRequired ==
    /\ [](\A c \in DOMAIN calls :
            (calls[c].name \in Ingestion /\ calls[c].pc # "idle")
            => IF IsObject(calls[c].args.body)
               THEN /\ calls[c].fetches = 1
                    /\ calls[c].request.method = "POST"
                    /\ calls[c].request.body = Str(JsonText(calls[c].args.body))
               ELSE /\ calls[c].fetches = 0
                    /\ calls[c].request = NoRequest
                    /\ calls[c].pc = "settled"
                    /\ calls[c].settled = "rejected"
                    /\ calls[c].error.name = "Error")
    /\ [][\A c \in DOMAIN calls :
            (calls[c].pc = "idle" /\ calls'[c].name \in Ingestion)
            => session' = session]_vars

C30_Witness ==
    \E c \in DOMAIN calls :
        /\ calls[c].name = "postLog"
        /\ calls[c].args.body = Str("raw")
        /\ calls[c].pc = "settled"
        /\ calls[c].settled = "rejected"
        /\ calls[c].fetches = 0
        /\ session.state = "ready"

C30_WitnessObject ==
    \E c \in DOMAIN calls :
        /\ calls[c].name = "postStatistics"
        /\ calls[c].request.method = "POST"
        /\ calls[c].request.body = Str(HookText)
        /\ calls[c].fetches = 1
====
